---- MODULE Spec2Model ----
(***************************************************************************)
(* VerbaAurea: the document split-marker pipeline (document_processor.py,  *)
(* text_analysis.py), the file discovery and worker-pool orchestrator      *)
(* (parallel_processor.py) and the configuration manager                   *)
(* (config_manager.py), as state machines.                                 *)
(*                                                                         *)
(* Indices of paragraphs and split points are the program's 0-based        *)
(* indices; a sequence s of the model holds the program's s[i] at s[i+1].  *)
(* Texts are sequences of characters over a small alphabet:                *)
(*   "H" a CJK ideograph, "a" a latin letter, "." a terminal punctuation   *)
(*   mark, "-" a list bullet, "1" a digit, " " white space.                *)
(***************************************************************************)
EXTENDS Integers, Sequences, FiniteSets, TLC

VARIABLES
    \* ---- document pipeline (document_processor.insert_split_markers) ----
    config,               \* the configuration values the pipeline reads
    body,                 \* the source document: paragraphs and tables in physical order
    output_file,          \* the output path's content on disk: NoFile or a saved document
    pc,                   \* position inside insert_split_markers
    paragraphs_info,      \* analyze_document's list
    idx,                  \* find_split_points' loop index i
    split_points,         \* find_split_points' list
    committed_by,         \* for each entry of split_points, the branch that appended it
    current_length,
    last_potential_split,
    final_split_points,   \* refine_split_points' result
    new_doc,              \* the document being written
    split_marker_count,
    result,               \* insert_split_markers' return value ("none" while running)
    open_count,           \* number of times Document(input_file) was called
    write_count,          \* number of times new_doc.save(output_file) wrote the file
    runs,                 \* number of insert_split_markers calls made on this job
    \* ---- orchestrator (parallel_processor.process_all_documents) ----
    jobs,                 \* files_to_process: for each job, insert_split_markers' outcome
    perf_settings,        \* config["performance_settings"]
    cpu_count,            \* multiprocessing.cpu_count()
    total_files,
    num_workers,          \* the pool's size (0 before it is determined)
    ppc,                  \* position inside process_all_documents
    tasks,                \* the pool tasks in submission order, each a list of job indices
    task_state,           \* per task: "queued", "running" or "done"
    completed,            \* the tasks in the order the workers completed them
    exec_count,           \* per job, the number of insert_split_markers calls
    consumed,             \* number of task results the parent's loop has taken
    seq_i,                \* process_sequentially's loop index
    processed_files,
    failed_files,
    pool_error,           \* the except branch of line 202 was taken
    \* ---- file discovery (parallel_processor.collect_files_to_process) ----
    current_dir,          \* get_script_dir(), a path string
    output_folder,        \* config["processing_options"]["output_folder"]
    tree,                 \* the files below current_dir: [dir, name] records
    pending,              \* directories os.walk has still to yield
    walk_jobs,            \* files_to_process while it is being collected
    writes,               \* what the runs over the tree have written so far
    \* ---- configuration (config_manager) ----
    config_file,          \* config.json on disk
    default_config,       \* the module-level DEFAULT_CONFIG object
    loads,                \* the load_config calls made so far and their outcomes
    \* ---- interactive menus (split_word.main, main.main) ----
    cli,                  \* the running menu: its variant, position, config and last prompt
    \* ---- spreadsheet conversion (excel_processor.ExcelParser) ----
    xl,                   \* one call of ExcelParser.parse: its position and locals
    \* ---- element extraction (text_analysis.extract_elements_info) ----
    extract,              \* one call of extract_elements_info: arguments and result
    \* ---- sentence boundaries (text_analysis) ----
    boundary              \* one call of a boundary function: arguments and result

splitVars == <<config, body, output_file, pc, paragraphs_info, idx, split_points,
               committed_by, current_length, last_potential_split,
               final_split_points, new_doc, split_marker_count, result,
               open_count, write_count, runs>>

poolVars == <<jobs, perf_settings, cpu_count, total_files, num_workers, ppc, tasks,
              task_state, completed, exec_count, consumed, seq_i, processed_files,
              failed_files, pool_error>>

walkVars == <<current_dir, output_folder, tree, pending, walk_jobs, writes>>

cfgVars == <<config_file, default_config, loads>>

cliVars == <<cli>>

xlVars == <<xl>>

extractVars == <<extract>>

boundaryVars == <<boundary>>

vars == <<splitVars, poolVars, walkVars, cfgVars, cliVars, xlVars, extractVars, boundaryVars>>

(***************************************************************************)
(* Each specification below runs one part of the program; the variables of *)
(* the other parts then keep the values given here.                        *)
(***************************************************************************)
PipelineIdle ==
    /\ config = <<>>
    /\ body = <<>>
    /\ output_file = <<>>
    /\ pc = "idle"
    /\ paragraphs_info = <<>>
    /\ idx = 0
    /\ split_points = <<>>
    /\ committed_by = <<>>
    /\ current_length = 0
    /\ last_potential_split = -1
    /\ final_split_points = <<>>
    /\ new_doc = <<>>
    /\ split_marker_count = 0
    /\ result = "none"
    /\ open_count = 0
    /\ write_count = 0
    /\ runs = 0

PoolIdle ==
    /\ jobs = <<>>
    /\ perf_settings = <<>>
    /\ cpu_count = 1
    /\ total_files = 0
    /\ num_workers = 0
    /\ ppc = "idle"
    /\ tasks = <<>>
    /\ task_state = <<>>
    /\ completed = <<>>
    /\ exec_count = <<>>
    /\ consumed = 0
    /\ seq_i = 0
    /\ processed_files = 0
    /\ failed_files = <<>>
    /\ pool_error = FALSE

WalkIdle ==
    /\ current_dir = <<>>
    /\ output_folder = <<>>
    /\ tree = {}
    /\ pending = {}
    /\ walk_jobs = <<>>
    /\ writes = <<>>

ConfigIdle ==
    /\ config_file = <<>>
    /\ default_config = <<>>
    /\ loads = <<>>

CliIdle ==
    cli = [variant |-> "none", loop |-> "idle", at |-> 0, edits |-> 0, config |-> <<>>,
           input |-> "", warned |-> FALSE]

ExcelIdle == xl = [stage |-> "idle"]

ExtractIdle == extract = [stage |-> "idle"]

BoundaryIdle == boundary = [stage |-> "idle"]

(***************************************************************************)
(* Bounds of the model.                                                    *)
(***************************************************************************)
MaxElems == 4        \* body elements of a source document
MaxRuns  == 2        \* calls of insert_split_markers on one job

(***************************************************************************)
(* Generic helpers.                                                        *)
(***************************************************************************)
Min2(a, b) == IF a <= b THEN a ELSE b
Max2(a, b) == IF a >= b THEN a ELSE b
Last(s) == s[Len(s)]
Range(s) == {s[n] : n \in 1..Len(s)}
SeqsUpTo(S, n) == UNION {[1..m -> S] : m \in 0..n}

RECURSIVE SumLen(_, _, _)
\* sum(p['length'] for p in infos[lo:hi]) with Python slice bounds lo, hi
SumLen(infos, lo, hi) ==
    IF lo >= hi THEN 0 ELSE infos[lo + 1].length + SumLen(infos, lo + 1, hi)

RECURSIVE SortedSeq(_)
\* sorted(list(S)) for a finite set of integers
SortedSeq(S) ==
    IF S = {} THEN <<>>
    ELSE LET m == CHOOSE x \in S : \A y \in S : x <= y
         IN <<m>> \o SortedSeq(S \ {m})

(***************************************************************************)
(* Strings.                                                                *)
(***************************************************************************)
TerminalPunct == {"."}      \* stands for the marks 。！？.!?；;
Bullets == {"-"}            \* stands for the bullets and '-', '*'
Digits == {"1"}
Space == " "

EndsWithTerminal(t) == Len(t) > 0 /\ t[Len(t)] \in TerminalPunct

StartsWith(t, p) == Len(p) <= Len(t) /\ SubSeq(t, 1, Len(p)) = p
EndsWith(t, p) == Len(p) <= Len(t) /\ SubSeq(t, Len(t) - Len(p) + 1, Len(t)) = p

\* str.strip()
Strip(t) ==
    LET inked == {n \in 1..Len(t) : t[n] # Space} IN
    IF inked = {} THEN <<>>
    ELSE SubSeq(t, CHOOSE n \in inked : \A m \in inked : n <= m,
                   CHOOSE n \in inked : \A m \in inked : n >= m)

HasCJK(t) == \E n \in 1..Len(t) : t[n] = "H"

\* jieba.cut: a lossless tokenisation in which every punctuation mark and every
\* white-space character is a token of its own; other characters are kept
\* one per token (how ideographs group into words changes no prefix length
\* that ends at a punctuation token).
JiebaCut(t) == [n \in 1..Len(t) |-> <<t[n]>>]

\* ''.join(tokens), for tokens of one character each as JiebaCut makes them
Join(tokens) == [n \in 1..Len(tokens) |-> tokens[n][1]]

\* nltk sent_tokenize: a sentence ends at '.', '!' or '?' followed by white
\* space; each sentence is returned without surrounding white space and no
\* empty sentence is returned.
SentTokenize(t) ==
    LET breaks == {n \in 1..Len(t) : /\ t[n] \in TerminalPunct
                                     /\ n < Len(t)
                                     /\ t[n + 1] = Space}
        ends == SortedSeq(breaks \cup {Len(t)})
        piece(k) == Strip(SubSeq(t, IF k = 1 THEN 1 ELSE ends[k - 1] + 1, ends[k]))
        pieces == [k \in 1..Len(ends) |-> piece(k)]
        NonEmpty(x) == x # <<>>
    IN SelectSeq(pieces, NonEmpty)

\* the distance bound of the Chinese branch
NearJoin == 5

is_sentence_boundary(text_before, text_after) ==
    IF EndsWithTerminal(text_before) THEN TRUE
    ELSE LET combined_text == text_before \o <<Space>> \o text_after IN
         IF HasCJK(combined_text)
         THEN LET sentences == JiebaCut(combined_text) IN
              \E n \in 1..(Len(sentences) - 1) :
                  /\ sentences[n][1] \in TerminalPunct
                  /\ Len(Join(SubSeq(sentences, 1, n))) - Len(text_before) < NearJoin
         ELSE LET sentences == SentTokenize(combined_text) IN
              \E n \in 1..Len(sentences) :
                  \/ EndsWith(text_before, sentences[n])
                  \/ StartsWith(text_after, sentences[n])

\* is_sentence_boundary(paragraphs_info[i - 1]['text'], paragraphs_info[i]['text'])
BoundaryAt(infos, i) == is_sentence_boundary(infos[i].text, infos[i + 1].text)

RECURSIVE ScanBackward(_, _, _, _, _)
\* the first loop of find_nearest_sentence_boundary; acc = [best, dist],
\* dist = -1 standing for float('inf')
ScanBackward(infos, current_index, i, stop, acc) ==
    IF i >= stop THEN acc
    ELSE LET distance == current_index - i
             hit == /\ i > 0
                    /\ BoundaryAt(infos, i)
                    /\ 0 <= distance
                    /\ (acc.dist < 0 \/ distance < acc.dist)
         IN ScanBackward(infos, current_index, i + 1, stop,
                         IF hit THEN [best |-> i, dist |-> distance] ELSE acc)

RECURSIVE scan_forward_on_ties(_, _, _, _, _)
\* the second loop with <= in place of < at line 73
scan_forward_on_ties(infos, current_index, i, stop, acc) ==
    IF i >= stop THEN acc
    ELSE LET distance == i - current_index
             hit == /\ i > 0
                    /\ BoundaryAt(infos, i)
                    /\ (acc.dist < 0 \/ distance <= acc.dist)
         IN scan_forward_on_ties(infos, current_index, i + 1, stop,
                                 IF hit THEN [best |-> i, dist |-> distance] ELSE acc)

RECURSIVE ScanForward(_, _, _, _, _)
\* the second loop of find_nearest_sentence_boundary
ScanForward(infos, current_index, i, stop, acc) ==
    IF i >= stop THEN acc
    ELSE LET distance == i - current_index
             hit == /\ i > 0
                    /\ BoundaryAt(infos, i)
                    /\ (acc.dist < 0 \/ distance < acc.dist)
         IN ScanForward(infos, current_index, i + 1, stop,
                        IF hit THEN [best |-> i, dist |-> distance] ELSE acc)

find_nearest_sentence_boundary(infos, current_index, search_window) ==
    LET back == ScanBackward(infos, current_index,
                             Max2(0, current_index - search_window),
                             current_index + 1, [best |-> -1, dist |-> -1])
        forw == ScanForward(infos, current_index, current_index + 1,
                            Min2(Len(infos), current_index + search_window + 1), back)
    IN forw.best

(***************************************************************************)
(* Documents.                                                              *)
(***************************************************************************)
IsPara(e) == e.kind = "para"
IsTable(e) == e.kind = "table"

Para(style, text) ==
    [kind |-> "para", style |-> style, text |-> text, rows |-> 0, copy |-> "ok"]
Table(rows) ==
    [kind |-> "table", style |-> "Normal", text |-> <<>>, rows |-> rows, copy |-> "ok"]

\* what copying the element into new_doc meets: "ok" (nothing raises),
\* "format" (an exception inside the try blocks, after the element was added:
\* copy_paragraph lines 332-358, copy_single_table lines 251-264) or, for a
\* table, "early" (an exception before add_table, lines 245-249)
CopyModes == {"ok", "format", "early"}
Damaged(e, how) == [e EXCEPT !.copy = how]

\* doc.paragraphs: the body-level paragraphs, in order
Paragraphs(doc) == SelectSeq(doc, IsPara)

\* the body position (1-based) of the paragraph with index i of doc.paragraphs
RECURSIVE ParaPositions(_, _)
ParaPositions(doc, n) ==
    IF n > Len(doc) THEN <<>>
    ELSE (IF IsPara(doc[n]) THEN <<n>> ELSE <<>>) \o ParaPositions(doc, n + 1)

is_list_item(text) ==
    \/ (Len(text) > 0 /\ text[1] \in Bullets)
    \/ (Len(text) > 1 /\ text[1] \in Digits /\ text[2] = ".")

ParagraphInfo(paragraph, i) ==
    LET text == Strip(paragraph.text) IN
    IF text = <<>>
    THEN [index |-> i, text |-> <<>>, length |-> 0, is_heading |-> FALSE,
          is_list_item |-> FALSE, ends_with_period |-> FALSE]
    ELSE [index |-> i, text |-> text, length |-> Len(text),
          is_heading |-> paragraph.style = "Heading",
          is_list_item |-> is_list_item(text),
          ends_with_period |-> EndsWithTerminal(text)]

\* analyze_document: one entry per paragraph of doc.paragraphs, empty ones included
analyze_document(doc) ==
    LET ps == Paragraphs(doc) IN [n \in 1..Len(ps) |-> ParagraphInfo(ps[n], n - 1)]

(***************************************************************************)
(* Scoring and split-point selection (document_processor.py).              *)
(***************************************************************************)
\* calculate_split_score without rule 6 (lines 201-203)
score_without_adjacency(i, para_info, infos, cur_length, cfg, points) ==
    LET heading == IF para_info.is_heading THEN cfg.heading_score_bonus ELSE 0
        period == IF para_info.ends_with_period THEN cfg.sentence_end_score_bonus ELSE 0
        integrity == IF i > 0 /\ BoundaryAt(infos, i)
                     THEN (8 * cfg.sentence_integrity_weight) \div 8
                     ELSE -10
        length == IF cur_length >= cfg.min_length
                  THEN Min2(4, (cur_length - cfg.min_length) \div cfg.length_score_factor)
                  ELSE IF 10 * cur_length < 7 * cfg.min_length THEN -5 ELSE 0
        listitem == IF i > 0 /\ (\/ para_info.is_list_item /\ ~infos[i].is_list_item
                                 \/ /\ ~para_info.is_list_item
                                    /\ infos[i].is_list_item
                                    /\ infos[i].ends_with_period)
                    THEN 3 ELSE 0
        overlong == IF cur_length > cfg.max_length THEN 4 ELSE 0
    IN heading + period + integrity + length + listitem + overlong

calculate_split_score(i, para_info, infos, cur_length, cfg, points) ==
    LET heading == IF para_info.is_heading THEN cfg.heading_score_bonus ELSE 0
        period == IF para_info.ends_with_period THEN cfg.sentence_end_score_bonus ELSE 0
        integrity == IF i > 0 /\ BoundaryAt(infos, i)
                     THEN (8 * cfg.sentence_integrity_weight) \div 8
                     ELSE -10
        length == IF cur_length >= cfg.min_length
                  THEN Min2(4, (cur_length - cfg.min_length) \div cfg.length_score_factor)
                  ELSE IF 10 * cur_length < 7 * cfg.min_length THEN -5 ELSE 0
        listitem == IF i > 0 /\ (\/ para_info.is_list_item /\ ~infos[i].is_list_item
                                 \/ /\ ~para_info.is_list_item
                                    /\ infos[i].is_list_item
                                    /\ infos[i].ends_with_period)
                    THEN 3 ELSE 0
        adjacent == IF points # <<>> /\ i - Last(points) < 3 THEN -8 ELSE 0
        overlong == IF cur_length > cfg.max_length THEN 4 ELSE 0
    IN heading + period + integrity + length + listitem + adjacent + overlong

\* line 134: the score branch is taken
ScoreBranch(i, score, cfg) == score >= cfg.min_split_score /\ i > 0

\* line 141: current_length > max_length * 1.5
OverLong(cur_length, cfg) == 2 * cur_length > 3 * cfg.max_length

\* line 145: the nearest boundary is usable
BoundaryUsable(best, points) ==
    IF best >= 0 THEN (IF points = <<>> THEN TRUE ELSE best > Last(points)) ELSE FALSE

\* line 156 with the distance 3 replaced by 0
forced_at_once(i, last_split) == i - last_split > 0

\* line 156: the forced split is allowed
ForcedAllowed(i, last_split) == i - last_split > 3

RECURSIVE RefineFrom(_, _, _, _)
\* the loop of refine_split_points over split_points[n..], acc = final_split_points so far
RefineFrom(infos, points, search_window, acc) ==
    IF points = <<>> THEN acc
    ELSE LET split_point == Head(points)
             before_text == IF split_point > 0 THEN infos[split_point].text ELSE <<>>
             after_text == infos[split_point + 1].text
             best_point == find_nearest_sentence_boundary(infos, split_point, search_window)
             chosen == IF is_sentence_boundary(before_text, after_text) THEN split_point
                       ELSE IF best_point >= 0 /\ best_point \notin Range(acc)
                            THEN best_point
                            ELSE split_point
         IN RefineFrom(infos, Tail(points), search_window, Append(acc, chosen))

RECURSIVE SubstituteFrom(_, _, _, _)
\* the loop without the test `best_point not in final_split_points` of line 227
SubstituteFrom(infos, points, search_window, acc) ==
    IF points = <<>> THEN acc
    ELSE LET split_point == Head(points)
             before_text == IF split_point > 0 THEN infos[split_point].text ELSE <<>>
             after_text == infos[split_point + 1].text
             best_point == find_nearest_sentence_boundary(infos, split_point, search_window)
             chosen == IF is_sentence_boundary(before_text, after_text) THEN split_point
                       ELSE IF best_point >= 0 THEN best_point ELSE split_point
         IN SubstituteFrom(infos, Tail(points), search_window, Append(acc, chosen))

refine_substituting(infos, points, search_window) ==
    SortedSeq(Range(SubstituteFrom(infos, points, search_window, <<>>)))

\* refine_split_points returning final_split_points as the loop left it
refine_unsorted(infos, points, search_window) ==
    RefineFrom(infos, points, search_window, <<>>)

refine_split_points(infos, points, search_window) ==
    SortedSeq(Range(RefineFrom(infos, points, search_window, <<>>)))

(***************************************************************************)
(* Writing the output document (create_output_document).                   *)
(***************************************************************************)
Marker == <<"<!--split-->">>

NoFile == [exists |-> FALSE, content |-> <<>>]
SavedFile(doc) == [exists |-> TRUE, content |-> doc]

RECURSIVE AllElementsFrom(_, _)
\* doc._element.xpath('.//w:p | .//w:tbl'): every paragraph and table of the
\* document in document order, the paragraphs inside table cells included
\* (pos = 0: not an element of the body)
AllElementsFrom(doc, n) ==
    IF n > Len(doc) THEN <<>>
    ELSE (IF IsPara(doc[n])
          THEN <<[tag |-> "p", pos |-> n]>>
          ELSE <<[tag |-> "tbl", pos |-> n]>>
               \o [r \in 1..doc[n].rows |-> [tag |-> "p", pos |-> 0]])
         \o AllElementsFrom(doc, n + 1)
AllElements(doc) == AllElementsFrom(doc, 1)

\* the paragraph's index among all body elements, tables counted
BodyIndex(doc, pos) == pos - 1

\* paragraph_map[element][1]: the index in doc.paragraphs of the paragraph at body position pos
ParaIndex(doc, pos) == Len(SelectSeq(SubSeq(doc, 1, pos - 1), IsPara))

\* what one element adds to new_doc (lines 290-309 with copy_paragraph and
\* copy_single_table)
WrittenFor(doc, el, points) ==
    IF el.tag = "p"
    THEN IF el.pos = 0 THEN <<>>
         ELSE (IF ParaIndex(doc, el.pos) \in Range(points)
               THEN <<[kind |-> "para", text |-> Marker, src |-> 0, styled |-> TRUE]>>
               ELSE <<>>)
              \o <<[kind |-> "para", text |-> doc[el.pos].text, src |-> el.pos,
                    styled |-> doc[el.pos].copy = "ok"]>>
    ELSE IF doc[el.pos].copy # "early" /\ doc[el.pos].rows > 0
         THEN <<[kind |-> "table", text |-> <<>>, src |-> el.pos,
                 styled |-> doc[el.pos].copy = "ok"]>>
         ELSE <<>>

RECURSIVE WriteFrom(_, _, _)
WriteFrom(doc, elements, points) ==
    IF elements = <<>> THEN <<>>
    ELSE WrittenFor(doc, Head(elements), points) \o WriteFrom(doc, Tail(elements), points)

IsMarker(e) == e.src = 0

\* the body elements whose copy raised an exception
CopyErrors(doc) == {n \in 1..Len(doc) : doc[n].copy # "ok"}

\* the return value if an exception of a copy reached the caller
result_unless_copy_error(doc, saved) ==
    IF saved /\ CopyErrors(doc) = {} THEN "True" ELSE "False"

\* lines 316-323: the return value of create_output_document
create_output_result(doc, saved) == IF saved THEN "True" ELSE "False"

(***************************************************************************)
(* insert_split_markers as a state machine.                                *)
(***************************************************************************)
ParaTexts == { <<" ">>, <<"a", "a">>, <<"a", ".">>, <<"H", ".", "H">> }

BodyElements ==
    {Para("Normal", t) : t \in ParaTexts} \cup {Para("Heading", <<"a", ".">>), Table(1)}

ScaledConfigA(s) ==
    [max_length |-> 4, min_length |-> 2, sentence_integrity_weight |-> 8,
     search_window |-> 2, min_split_score |-> 7, heading_score_bonus |-> 10,
     sentence_end_score_bonus |-> 6, length_score_factor |-> 1, skip_existing |-> s]

ScaledConfigB(s) ==
    [max_length |-> 3, min_length |-> 3, sentence_integrity_weight |-> 8,
     search_window |-> 1, min_split_score |-> 9, heading_score_bonus |-> 10,
     sentence_end_score_bonus |-> 6, length_score_factor |-> 2, skip_existing |-> s]

ScaledConfigs == {ScaledConfigA(s) : s \in BOOLEAN} \cup {ScaledConfigB(s) : s \in BOOLEAN}

Locals0 ==
    /\ paragraphs_info = <<>>
    /\ idx = 0
    /\ split_points = <<>>
    /\ committed_by = <<>>
    /\ current_length = 0
    /\ last_potential_split = -1
    /\ final_split_points = <<>>
    /\ new_doc = <<>>
    /\ split_marker_count = 0
    /\ result = "none"

Init ==
    /\ config \in ScaledConfigs
    /\ body \in SeqsUpTo(BodyElements, MaxElems) \ {<<>>}
    /\ output_file = NoFile
    /\ pc = "start"
    /\ Locals0
    /\ open_count = 0
    /\ write_count = 0
    /\ runs = 1
    /\ PoolIdle
    /\ WalkIdle
    /\ ConfigIdle
    /\ CliIdle
    /\ ExcelIdle
    /\ ExtractIdle
    /\ BoundaryIdle

\* line 48 with the flag negated
SkipsUnlessFlag == ~config.skip_existing /\ output_file.exists

\* line 48
Skips == config.skip_existing /\ output_file.exists

\* lines 47-51
SkipExisting ==
    /\ pc = "start"
    /\ Skips
    /\ result' = "True"
    /\ pc' = "done"
    /\ UNCHANGED <<config, body, output_file, paragraphs_info, idx, split_points,
                   committed_by, current_length, last_potential_split,
                   final_split_points, new_doc, split_marker_count, open_count,
                   write_count, runs, poolVars, walkVars, cfgVars, cliVars, xlVars, extractVars, boundaryVars>>

\* lines 53-57: Document(input_file) raises
OpenFails ==
    /\ pc = "start"
    /\ ~Skips
    /\ open_count' = open_count + 1
    /\ result' = "False"
    /\ pc' = "done"
    /\ UNCHANGED <<config, body, output_file, paragraphs_info, idx, split_points,
                   committed_by, current_length, last_potential_split,
                   final_split_points, new_doc, split_marker_count, write_count, runs, poolVars, walkVars, cfgVars, cliVars, xlVars, extractVars, boundaryVars>>

\* lines 53-66: the document opens and is analysed
OpenAndAnalyze ==
    /\ pc = "start"
    /\ ~Skips
    /\ open_count' = open_count + 1
    /\ paragraphs_info' = analyze_document(body)
    /\ pc' = "find"
    /\ UNCHANGED <<config, body, output_file, idx, split_points, committed_by,
                   current_length, last_potential_split, final_split_points,
                   new_doc, split_marker_count, result, write_count, runs, poolVars, walkVars, cfgVars, cliVars, xlVars, extractVars, boundaryVars>>

para_info == paragraphs_info[idx + 1]
NewLength == current_length + para_info.length
split_score == calculate_split_score(idx, para_info, paragraphs_info, NewLength,
                                     config, split_points)
best_boundary_index == find_nearest_sentence_boundary(paragraphs_info, idx,
                                                      config.search_window)
InLoop == pc = "find" /\ idx < Len(paragraphs_info)

FindFrame == UNCHANGED <<config, body, output_file, pc, paragraphs_info,
                         final_split_points, new_doc, split_marker_count, result,
                         open_count, write_count, runs, poolVars, walkVars, cfgVars, cliVars, xlVars, extractVars, boundaryVars>>

\* lines 116-117
FindSkipEmpty ==
    /\ InLoop
    /\ para_info.length = 0
    /\ idx' = idx + 1
    /\ UNCHANGED <<split_points, committed_by, current_length, last_potential_split>>
    /\ FindFrame

\* lines 134-140
FindScoreCommit ==
    /\ InLoop
    /\ para_info.length # 0
    /\ ScoreBranch(idx, split_score, config)
    /\ split_points' = Append(split_points, idx)
    /\ committed_by' = Append(committed_by, "score")
    /\ current_length' = para_info.length
    /\ last_potential_split' = idx
    /\ idx' = idx + 1
    /\ FindFrame

\* lines 141-155
FindBoundaryCommit ==
    /\ InLoop
    /\ para_info.length # 0
    /\ ~ScoreBranch(idx, split_score, config)
    /\ OverLong(NewLength, config)
    /\ BoundaryUsable(best_boundary_index, split_points)
    /\ split_points' = Append(split_points, best_boundary_index)
    /\ committed_by' = Append(committed_by, "boundary")
    /\ current_length' = IF best_boundary_index < idx
                         THEN SumLen(paragraphs_info, best_boundary_index, idx + 1)
                         ELSE para_info.length
    /\ last_potential_split' = best_boundary_index
    /\ idx' = idx + 1
    /\ FindFrame

\* lines 156-163
FindForcedCommit ==
    /\ InLoop
    /\ para_info.length # 0
    /\ ~ScoreBranch(idx, split_score, config)
    /\ OverLong(NewLength, config)
    /\ ~BoundaryUsable(best_boundary_index, split_points)
    /\ ForcedAllowed(idx, last_potential_split)
    /\ split_points' = Append(split_points, idx)
    /\ committed_by' = Append(committed_by, "forced")
    /\ current_length' = para_info.length
    /\ last_potential_split' = idx
    /\ idx' = idx + 1
    /\ FindFrame

\* no branch of lines 134-163 is taken
FindNoSplit ==
    /\ InLoop
    /\ para_info.length # 0
    /\ ~ScoreBranch(idx, split_score, config)
    /\ \/ ~OverLong(NewLength, config)
       \/ /\ ~BoundaryUsable(best_boundary_index, split_points)
          /\ ~ForcedAllowed(idx, last_potential_split)
    /\ current_length' = NewLength
    /\ idx' = idx + 1
    /\ UNCHANGED <<split_points, committed_by, last_potential_split>>
    /\ FindFrame

\* lines 83-88: find_split_points has returned; refine_split_points runs
Refine ==
    /\ pc = "find"
    /\ idx = Len(paragraphs_info)
    /\ final_split_points' = refine_split_points(paragraphs_info, split_points,
                                                 config.search_window)
    /\ pc' = "write"
    /\ UNCHANGED <<config, body, output_file, paragraphs_info, idx, split_points,
                   committed_by, current_length, last_potential_split, new_doc,
                   split_marker_count, result, open_count, write_count, runs, poolVars, walkVars, cfgVars, cliVars, xlVars, extractVars, boundaryVars>>

\* lines 94-102 and 270-323: the output is built, then saved (or the save raises)
CreateOutput ==
    /\ pc = "write"
    /\ \E saved \in BOOLEAN :
          LET written == WriteFrom(body, AllElements(body), final_split_points) IN
          /\ new_doc' = written
          /\ split_marker_count' = Len(SelectSeq(written, IsMarker))
          /\ IF saved
             THEN /\ output_file' = SavedFile(written)
                  /\ write_count' = write_count + 1
             ELSE UNCHANGED <<output_file, write_count>>
          /\ result' = create_output_result(body, saved)
    /\ pc' = "done"
    /\ UNCHANGED <<config, body, paragraphs_info, idx, split_points, committed_by,
                   current_length, last_potential_split, final_split_points,
                   open_count, runs, poolVars, walkVars, cfgVars, cliVars, xlVars, extractVars, boundaryVars>>

\* the job is processed again by a later run
NextRun ==
    /\ pc = "done"
    /\ runs < MaxRuns
    /\ runs' = runs + 1
    /\ pc' = "start"
    /\ paragraphs_info' = <<>>
    /\ idx' = 0
    /\ split_points' = <<>>
    /\ committed_by' = <<>>
    /\ current_length' = 0
    /\ last_potential_split' = -1
    /\ final_split_points' = <<>>
    /\ new_doc' = <<>>
    /\ split_marker_count' = 0
    /\ result' = "none"
    /\ UNCHANGED <<config, body, output_file, open_count, write_count, poolVars, walkVars, cfgVars, cliVars, xlVars, extractVars, boundaryVars>>

Next ==
    \/ SkipExisting
    \/ OpenFails
    \/ OpenAndAnalyze
    \/ FindSkipEmpty
    \/ FindScoreCommit
    \/ FindBoundaryCommit
    \/ FindForcedCommit
    \/ FindNoSplit
    \/ Refine
    \/ CreateOutput
    \/ NextRun

Spec == Init /\ [][Next]_vars

(***************************************************************************)
(* The pipeline on runs of identical paragraphs, under the default         *)
(* configuration (config_manager.DEFAULT_CONFIG) and the scaled ones.      *)
(***************************************************************************)
MaxUniform == 20        \* paragraphs of a uniform run

DefaultConfig(s) ==
    [max_length |-> 1000, min_length |-> 300, sentence_integrity_weight |-> 8,
     search_window |-> 5, min_split_score |-> 7, heading_score_bonus |-> 10,
     sentence_end_score_bonus |-> 6, length_score_factor |-> 100, skip_existing |-> s]

Rep(c, k) == [n \in 1..k |-> c]

\* short paragraphs (fewer than 50 characters, text_analysis.py line 106)
UniformTexts ==
    { <<" ">>, <<"a", "a">>, <<"H", ".", "H">>,
      Rep("a", 10), Rep("a", 9) \o <<".">>, Rep("a", 48) \o <<".">> }

UniformBodies ==
    { [n \in 1..k |-> Para(style, t)] :
        k \in 1..MaxUniform, style \in {"Normal", "Heading"}, t \in UniformTexts }

InitUniform ==
    /\ config \in {DefaultConfig(TRUE), DefaultConfig(FALSE),
                    ScaledConfigA(FALSE), ScaledConfigB(FALSE)}
    /\ body \in UniformBodies
    /\ output_file = NoFile
    /\ pc = "start"
    /\ Locals0
    /\ open_count = 0
    /\ write_count = 0
    /\ runs = 1
    /\ PoolIdle
    /\ WalkIdle
    /\ ConfigIdle
    /\ CliIdle
    /\ ExcelIdle
    /\ ExtractIdle
    /\ BoundaryIdle

SpecUniform == InitUniform /\ [][Next]_vars

(***************************************************************************)
(* The pipeline on documents some of whose elements fail to copy.          *)
(***************************************************************************)
CopyElements ==
    LET plain == Para("Normal", <<"a", "a">>)
        ended == Para("Normal", <<"a", ".">>)
    IN {plain, ended, Para("Normal", <<" ">>), Damaged(ended, "format"),
        Table(0), Table(1), Damaged(Table(1), "format"), Damaged(Table(1), "early")}

InitCopy ==
    /\ config \in {ScaledConfigA(FALSE), ScaledConfigB(FALSE), ScaledConfigB(TRUE)}
    /\ body \in SeqsUpTo(CopyElements, MaxElems) \ {<<>>}
    /\ output_file = NoFile
    /\ pc = "start"
    /\ Locals0
    /\ open_count = 0
    /\ write_count = 0
    /\ runs = 1
    /\ PoolIdle
    /\ WalkIdle
    /\ ConfigIdle
    /\ CliIdle
    /\ ExcelIdle
    /\ ExtractIdle
    /\ BoundaryIdle

SpecCopy == InitCopy /\ [][Next]_vars

(***************************************************************************)
(* The pipeline with a search window as wide as the distance of a forced   *)
(* split from the split before it.                                         *)
(***************************************************************************)
MaxWide == 6          \* body elements of a document searched with the wide window

WideConfig(s) ==
    [max_length |-> 4, min_length |-> 2, sentence_integrity_weight |-> 8,
     search_window |-> 4, min_split_score |-> 7, heading_score_bonus |-> 10,
     sentence_end_score_bonus |-> 6, length_score_factor |-> 1, skip_existing |-> s]

WideElements ==
    {Para("Normal", <<"a", "a">>), Para("Normal", <<"a", ".">>), Para("Normal", <<" ">>),
     Para("Heading", <<"a", "a">>)}

InitWide ==
    /\ config \in {WideConfig(s) : s \in BOOLEAN}
    /\ body \in SeqsUpTo(WideElements, MaxWide) \ {<<>>}
    /\ output_file = NoFile
    /\ pc = "start"
    /\ Locals0
    /\ open_count = 0
    /\ write_count = 0
    /\ runs = 1
    /\ PoolIdle
    /\ WalkIdle
    /\ ConfigIdle
    /\ CliIdle
    /\ ExcelIdle
    /\ ExtractIdle
    /\ BoundaryIdle

SpecWide == InitWide /\ [][Next]_vars

(***************************************************************************)
(* The pipeline on list items and over-long paragraphs, with the default   *)
(* search window.                                                          *)
(***************************************************************************)
ScoreConfig ==
    [max_length |-> 4, min_length |-> 2, sentence_integrity_weight |-> 8,
     search_window |-> 5, min_split_score |-> 7, heading_score_bonus |-> 10,
     sentence_end_score_bonus |-> 6, length_score_factor |-> 1, skip_existing |-> TRUE]

ScoreElements ==
    {Para("Normal", Rep("a", 7)), Para("Normal", <<"a", ".">>),
     Para("Normal", <<"-", "a">>), Para("Normal", <<" ">>)}

InitScore ==
    /\ config = ScoreConfig
    /\ body \in SeqsUpTo(ScoreElements, MaxWide) \ {<<>>}
    /\ output_file = NoFile
    /\ pc = "start"
    /\ Locals0
    /\ open_count = 0
    /\ write_count = 0
    /\ runs = 1
    /\ PoolIdle
    /\ WalkIdle
    /\ ConfigIdle
    /\ CliIdle
    /\ ExcelIdle
    /\ ExtractIdle
    /\ BoundaryIdle

SpecScore == InitScore /\ [][Next]_vars

(***************************************************************************)
(* The orchestrator (parallel_processor.py).  A job is named by its index  *)
(* in files_to_process (its input path); jobs[j] is what                   *)
(* insert_split_markers does on it: "ok" (returns True), "false" (returns  *)
(* False) or "raise" (raises an exception).                                *)
(***************************************************************************)
MaxSetting == 10        \* largest performance_settings.num_workers tried
MaxCpu == 16            \* largest cpu_count() tried
MaxJobCount == 10       \* largest number of discovered jobs when sizing the pool
MaxJobs == 3            \* jobs of a pooled or sequential run
MaxBatch == 2           \* largest performance_settings.batch_size tried
MaxPoolSetting == 2     \* largest num_workers setting of a pooled run
MaxPoolCpu == 3         \* largest cpu_count() of a pooled run

PoolCap == 8

Outcomes == {"ok", "false", "raise"}

\* lines 150-155 without the cap of line 155
workers_uncapped(setting, cpus, total) ==
    LET w == IF setting <= 0 THEN Max2(1, cpus - 1) ELSE setting
    IN Min2(w, Max2(1, total))

\* lines 150-155
effective_workers(setting, cpus, total) ==
    LET w == IF setting <= 0 THEN Max2(1, cpus - 1) ELSE setting
    IN Min2(Min2(w, Max2(1, total)), PoolCap)

RECURSIVE batches_without_rest(_, _, _, _)
\* the loop of lines 174-178 without the last, incomplete batch of lines 180-181
batches_without_rest(files, batch_size, current_batch, batches) ==
    IF files = <<>> THEN batches
    ELSE LET grown == Append(current_batch, Head(files)) IN
         IF Len(grown) >= batch_size
         THEN batches_without_rest(Tail(files), batch_size, <<>>, Append(batches, grown))
         ELSE batches_without_rest(Tail(files), batch_size, grown, batches)

RECURSIVE BatchesFrom(_, _, _, _)
\* lines 170-181: the loop over files_to_process[n..] with current_batch and batches
BatchesFrom(files, batch_size, current_batch, batches) ==
    IF files = <<>>
    THEN (IF current_batch # <<>> THEN Append(batches, current_batch) ELSE batches)
    ELSE LET grown == Append(current_batch, Head(files)) IN
         IF Len(grown) >= batch_size
         THEN BatchesFrom(Tail(files), batch_size, <<>>, Append(batches, grown))
         ELSE BatchesFrom(Tail(files), batch_size, grown, batches)

\* lines 168-193: the pool's tasks
PoolTasks(n, batch_size) ==
    IF batch_size > 1
    THEN BatchesFrom([j \in 1..n |-> j], batch_size, <<>>, <<>>)
    ELSE [j \in 1..n |-> <<j>>]

\* an exception of insert_split_markers counted as a success
succeeded_unless_false(outcome) == outcome # "false"

\* result['success'] of _process_file and _process_batch (lines 69-90, 98-120)
\* and the test of lines 236-249
Succeeded(outcome) == outcome = "ok"

\* the task whose result the parent would get from imap_unordered
imap_unordered_next(n_consumed, done_order) ==
    IF Len(done_order) > n_consumed THEN done_order[n_consumed + 1] ELSE 0

\* pool.imap (lines 185, 196): results come in submission order
imap_next(n_consumed, done_order) == n_consumed + 1

RECURSIVE CountResults(_, _, _, _)
\* lines 186-190, 197-200: the parent's counting of one task's results
CountResults(task, outcomes, processed, failed) ==
    IF task = <<>> THEN [processed |-> processed, failed |-> failed]
    ELSE IF Succeeded(outcomes[Head(task)])
         THEN CountResults(Tail(task), outcomes, processed + 1, failed)
         ELSE CountResults(Tail(task), outcomes, processed, Append(failed, Head(task)))

PoolStart(job_list, settings, cpus, at) ==
    /\ jobs = job_list
    /\ perf_settings = settings
    /\ cpu_count = cpus
    /\ total_files = Len(job_list)
    /\ num_workers = 0
    /\ ppc = at
    /\ tasks = <<>>
    /\ task_state = <<>>
    /\ completed = <<>>
    /\ exec_count = [j \in 1..Len(job_list) |-> 0]
    /\ consumed = 0
    /\ seq_i = 0
    /\ processed_files = 0
    /\ failed_files = <<>>
    /\ pool_error = FALSE

PoolSettings ==
    [parallel_processing : BOOLEAN, num_workers : 0..MaxPoolSetting, batch_size : 1..MaxBatch]

\* lines 130-147: the state in which process_all_documents has dispatched
InitPool ==
    /\ \E job_list \in SeqsUpTo(Outcomes, MaxJobs), settings \in PoolSettings,
          cpus \in 1..MaxPoolCpu :
          PoolStart(job_list, settings, cpus,
                    IF job_list = <<>> THEN "empty"
                    ELSE IF settings.parallel_processing THEN "workers" ELSE "seq")
    /\ PipelineIdle
    /\ WalkIdle
    /\ ConfigIdle
    /\ CliIdle
    /\ ExcelIdle
    /\ ExtractIdle
    /\ BoundaryIdle

PoolFrame == UNCHANGED <<splitVars, walkVars, cfgVars, cliVars, xlVars, extractVars, boundaryVars, jobs, perf_settings, cpu_count,
                         total_files>>

\* lines 136-139 and 217-219
NoFiles ==
    /\ ppc = "empty"
    /\ ppc' = "returned"
    /\ UNCHANGED <<num_workers, tasks, task_state, completed, exec_count, consumed,
                   seq_i, processed_files, failed_files, pool_error>>
    /\ PoolFrame

\* lines 149-155
DetermineWorkers ==
    /\ ppc = "workers"
    /\ num_workers' = effective_workers(perf_settings.num_workers, cpu_count, total_files)
    /\ ppc' = "submit"
    /\ UNCHANGED <<tasks, task_state, completed, exec_count, consumed, seq_i,
                   processed_files, failed_files, pool_error>>
    /\ PoolFrame

\* lines 157-196: the tasks are built and handed to the pool
SubmitTasks ==
    /\ ppc = "submit"
    /\ tasks' = PoolTasks(total_files, perf_settings.batch_size)
    /\ task_state' = [t \in 1..Len(tasks') |-> "queued"]
    /\ ppc' = "pool"
    /\ UNCHANGED <<num_workers, completed, exec_count, consumed, seq_i,
                   processed_files, failed_files, pool_error>>
    /\ PoolFrame

Queued == {t \in 1..Len(tasks) : task_state[t] = "queued"}
Running == {t \in 1..Len(tasks) : task_state[t] = "running"}

\* an idle worker process takes the oldest queued task
WorkerTakesTask ==
    /\ ppc = "pool"
    /\ Cardinality(Running) < num_workers
    /\ Queued # {}
    /\ LET t == CHOOSE q \in Queued : \A r \in Queued : q <= r
       IN task_state' = [task_state EXCEPT ![t] = "running"]
    /\ UNCHANGED <<num_workers, tasks, completed, exec_count, consumed, seq_i,
                   processed_files, failed_files, pool_error, ppc>>
    /\ PoolFrame

\* _process_file / _process_batch (lines 61-122) ends in a worker
WorkerFinishesTask ==
    /\ ppc = "pool"
    /\ \E t \in Running :
          /\ task_state' = [task_state EXCEPT ![t] = "done"]
          /\ completed' = Append(completed, t)
          /\ exec_count' = [j \in 1..total_files |->
                               IF j \in Range(tasks[t]) THEN exec_count[j] + 1
                               ELSE exec_count[j]]
    /\ UNCHANGED <<num_workers, tasks, consumed, seq_i, processed_files,
                   failed_files, pool_error, ppc>>
    /\ PoolFrame

\* one turn of the loops of lines 185-190 and 196-200
ParentTakesResult ==
    /\ ppc = "pool"
    /\ consumed < Len(tasks)
    /\ LET t == imap_next(consumed, completed) IN
       /\ t \in Range(completed)
       /\ LET counted == CountResults(tasks[t], jobs, processed_files, failed_files) IN
          /\ processed_files' = counted.processed
          /\ failed_files' = counted.failed
    /\ consumed' = consumed + 1
    /\ UNCHANGED <<num_workers, tasks, task_state, completed, exec_count, seq_i,
                   pool_error, ppc>>
    /\ PoolFrame

\* line 206 after the loop has ended
ParallelReturns ==
    /\ ppc = "pool"
    /\ consumed = Len(tasks)
    /\ ppc' = "returned"
    /\ UNCHANGED <<num_workers, tasks, task_state, completed, exec_count, consumed,
                   seq_i, processed_files, failed_files, pool_error>>
    /\ PoolFrame

\* lines 202-206: the pool or the iteration over its results raises
PoolRaises ==
    /\ ppc \in {"submit", "pool"}
    /\ pool_error' = TRUE
    /\ ppc' = "returned"
    /\ UNCHANGED <<num_workers, tasks, task_state, completed, exec_count, consumed,
                   seq_i, processed_files, failed_files>>
    /\ PoolFrame

\* lines 231-249: one turn of process_sequentially's loop
SequentialStep ==
    /\ ppc = "seq"
    /\ seq_i < total_files
    /\ LET j == seq_i + 1
           counted == CountResults(<<j>>, jobs, processed_files, failed_files) IN
       /\ exec_count' = [exec_count EXCEPT ![j] = @ + 1]
       /\ processed_files' = counted.processed
       /\ failed_files' = counted.failed
    /\ seq_i' = seq_i + 1
    /\ UNCHANGED <<num_workers, tasks, task_state, completed, consumed, pool_error, ppc>>
    /\ PoolFrame

\* line 251
SequentialReturns ==
    /\ ppc = "seq"
    /\ seq_i = total_files
    /\ ppc' = "returned"
    /\ UNCHANGED <<num_workers, tasks, task_state, completed, exec_count, consumed,
                   seq_i, processed_files, failed_files, pool_error>>
    /\ PoolFrame

NextPool ==
    \/ NoFiles
    \/ DetermineWorkers
    \/ SubmitTasks
    \/ WorkerTakesTask
    \/ WorkerFinishesTask
    \/ ParentTakesResult
    \/ ParallelReturns
    \/ PoolRaises
    \/ SequentialStep
    \/ SequentialReturns

SpecPool == InitPool /\ [][NextPool]_vars

\* the sizing of the pool alone, over wider ranges of its inputs
InitWorkers ==
    /\ \E n \in 1..MaxJobCount, setting \in (-1)..MaxSetting, cpus \in 1..MaxCpu :
          PoolStart([j \in 1..n |-> "ok"],
                    [parallel_processing |-> TRUE, num_workers |-> setting, batch_size |-> 1],
                    cpus, "workers")
    /\ PipelineIdle
    /\ WalkIdle
    /\ ConfigIdle
    /\ CliIdle
    /\ ExcelIdle
    /\ ExtractIdle
    /\ BoundaryIdle

NextWorkers == DetermineWorkers

SpecWorkers == InitWorkers /\ [][NextWorkers]_vars

(***************************************************************************)
(* File discovery (collect_files_to_process).  A path string is a sequence *)
(* of characters, "/" the separator; a directory below current_dir is the  *)
(* sequence of its components; a file name is the sequence of its parts,   *)
(* "~$" the lock-file prefix and ".docx", ".doc", ".txt" the extensions.   *)
(***************************************************************************)
MaxFiles == 2           \* files of the scanned tree

OutName == <<"o">>
DirsTried ==
    { <<>>, <<<<"s">>>>, <<OutName>>, <<<<"o", "s">>>>, <<<<".", "g">>>>,
      <<<<".", "g">>, <<"s">>>>, <<<<"s">>, OutName>>, <<OutName, <<"s">>>> }
FileNames ==
    { <<"a", ".docx">>, <<"b", ".doc">>, <<"~$", "a", ".docx">>, <<"c", ".txt">> }
FilesTried == [dir : DirsTried, name : FileNames]

RECURSIVE SubsetsUpTo(_, _)
\* the subsets of S with at most k members
SubsetsUpTo(S, k) ==
    IF k = 0 THEN {{}}
    ELSE LET smaller == SubsetsUpTo(S, k - 1)
         IN smaller \cup {t \cup {x} : t \in smaller, x \in S}

Prefixes(dir) == {SubSeq(dir, 1, k) : k \in 0..Len(dir)}
Parent(dir) == SubSeq(dir, 1, Len(dir) - 1)

RECURSIVE PathString(_, _)
\* os.path.join(base, *dir)
PathString(base, dir) ==
    IF dir = <<>> THEN base ELSE PathString(base \o <<"/">> \o Head(dir), Tail(dir))

\* sub in str
Contains(str, sub) ==
    \E k \in 0..(Len(str) - Len(sub)) : SubSeq(str, k + 1, k + Len(sub)) = sub

\* os.path.basename(path)
Basename(path) ==
    LET slashes == {n \in 1..Len(path) : path[n] = "/"} IN
    IF slashes = {} THEN path
    ELSE SubSeq(path, (CHOOSE n \in slashes : \A m \in slashes : n >= m) + 1, Len(path))

\* line 32
DirSkipped(base, out, dir) ==
    LET root == PathString(base, dir) IN
    Contains(root, out) \/ StartsWith(Basename(root), <<".">>)

\* line 42
IsWordFile(name) == Last(name) \in {".docx", ".doc"} /\ Head(name) # "~$"

\* lines 44-56: the job of one file
Job(out, dir, name) ==
    [input |-> [dir |-> dir, name |-> name],
     output |-> [dir |-> <<out>> \o dir, name |-> name]]

Orderings(S) == {f \in [1..Cardinality(S) -> S] : Range(f) = S}

\* the bookkeeping of a run: its number, the skip_existing setting, the files
\* earlier runs wrote, the files this run wrote, the jobs a worker has taken
NoWrites(run, skip_existing, earlier) ==
    [run |-> run, skip_existing |-> skip_existing, earlier |-> earlier,
     latest |-> {}, done |-> {}]

\* lines 20-27: the state in which os.walk starts; the output directory exists
InitWalk ==
    /\ current_dir = <<"/", "r">>
    /\ output_folder = OutName
    /\ tree \in SubsetsUpTo(FilesTried, MaxFiles)
    /\ pending = UNION {Prefixes(f.dir) : f \in tree} \cup {<<>>, <<output_folder>>}
    /\ walk_jobs = <<>>
    /\ writes = NoWrites(1, TRUE, {})
    /\ PipelineIdle
    /\ PoolIdle
    /\ ConfigIdle
    /\ CliIdle
    /\ ExcelIdle
    /\ ExtractIdle
    /\ BoundaryIdle

\* the directories os.walk may yield next
Yieldable == {d \in pending : d = <<>> \/ Parent(d) \notin pending}

\* lines 30-33: a directory is yielded and skipped
WalkSkipDir ==
    /\ \E d \in Yieldable :
          /\ DirSkipped(current_dir, output_folder, d)
          /\ pending' = pending \ {d}
    /\ UNCHANGED <<current_dir, output_folder, tree, walk_jobs, writes, splitVars, poolVars, cfgVars, cliVars, xlVars, extractVars, boundaryVars>>

\* lines 30-56: a directory is yielded and its Word files become jobs; the
\* mirrored output directory is created, and os.walk yields it later when
\* the output folder has not been listed yet
WalkCollectDir ==
    /\ \E d \in Yieldable :
          /\ ~DirSkipped(current_dir, output_folder, d)
          /\ LET found == {f \in tree : f.dir = d /\ IsWordFile(f.name)}
                 made == IF found # {} /\ <<output_folder>> \in pending
                         THEN Prefixes(<<output_folder>> \o d) \ {<<>>}
                         ELSE {}
             IN /\ \E order \in Orderings(found) :
                      walk_jobs' = walk_jobs \o
                          [n \in 1..Len(order) |-> Job(output_folder, d, order[n].name)]
                /\ pending' = (pending \ {d}) \cup made
    /\ UNCHANGED <<current_dir, output_folder, tree, writes, splitVars, poolVars, cfgVars, cliVars, xlVars, extractVars, boundaryVars>>

NextWalk ==
    \/ WalkSkipDir
    \/ WalkCollectDir

SpecWalk == InitWalk /\ [][NextWalk]_vars

(***************************************************************************)
(* Runs of process_all_documents over one tree, the configuration edited   *)
(* between them.  A run collects its jobs, then its workers take the jobs  *)
(* in any order and write their outputs into the tree; the next run walks  *)
(* the tree as the earlier runs left it.                                   *)
(***************************************************************************)
MaxWalkRuns == 2        \* runs over one tree

\* values of processing_options.output_folder: two names and "."
FolderNames == {OutName, <<"p">>, <<".">>}

RunFiles == [dir : {<<>>, <<<<"s">>>>}, name : {<<"a", ".docx">>, <<"b", ".doc">>}]

\* the directory a sequence of path components names: "." names the
\* directory it is joined to
Resolved(dir) == SelectSeq(dir, LAMBDA part : part # <<".">>)

\* the file a path of a job names
FileOf(path) == [dir |-> Resolved(path.dir), name |-> path.name]

\* lines 24-30: the directories os.walk has to yield, the output directory
\* of line 25 among them
WalkStart(files, out) ==
    UNION {Prefixes(f.dir) : f \in files} \cup {<<>>, Resolved(<<out>>)}

InitRuns ==
    /\ current_dir = <<"/", "r">>
    /\ output_folder \in FolderNames
    /\ tree \in SubsetsUpTo(RunFiles, MaxFiles) \ {{}}
    /\ pending = WalkStart(tree, output_folder)
    /\ walk_jobs = <<>>
    /\ \E skip_existing \in BOOLEAN : writes = NoWrites(1, skip_existing, {})
    /\ PipelineIdle
    /\ PoolIdle
    /\ ConfigIdle
    /\ CliIdle
    /\ ExcelIdle
    /\ ExtractIdle
    /\ BoundaryIdle

RunsFrame == UNCHANGED <<splitVars, poolVars, cfgVars, cliVars, xlVars, extractVars, boundaryVars>>

\* lines 61-74 and document_processor.py lines 48-50: a worker takes a job
\* and returns at once, the output being there and skip_existing set
WorkerSkips ==
    /\ pending = {}
    /\ \E n \in DOMAIN walk_jobs \ writes.done :
          /\ writes.skip_existing
          /\ FileOf(walk_jobs[n].output) \in tree
          /\ writes' = [writes EXCEPT !.done = @ \cup {n}]
    /\ UNCHANGED <<current_dir, output_folder, tree, pending, walk_jobs>>
    /\ RunsFrame

\* lines 61-74 and document_processor.py lines 52-97: a worker takes a job
\* and saves the marked document at the job's output path
WorkerWrites ==
    /\ pending = {}
    /\ \E n \in DOMAIN walk_jobs \ writes.done :
          LET file == FileOf(walk_jobs[n].output) IN
          /\ ~(writes.skip_existing /\ file \in tree)
          /\ tree' = tree \cup {file}
          /\ writes' = [writes EXCEPT !.done = @ \cup {n}, !.latest = @ \cup {file}]
    /\ UNCHANGED <<current_dir, output_folder, pending, walk_jobs>>
    /\ RunsFrame

\* main.py lines 313-320 and 413: the output folder is edited (or left as it
\* is) and the documents are processed again
EditAndRunAgain ==
    /\ pending = {}
    /\ writes.done = DOMAIN walk_jobs
    /\ writes.run < MaxWalkRuns
    /\ \E folder \in FolderNames :
          /\ output_folder' = folder
          /\ pending' = WalkStart(tree, folder)
    /\ walk_jobs' = <<>>
    /\ writes' = NoWrites(writes.run + 1, writes.skip_existing,
                          writes.earlier \cup writes.latest)
    /\ UNCHANGED <<current_dir, tree>>
    /\ RunsFrame

NextRuns ==
    \/ WalkSkipDir
    \/ WalkCollectDir
    \/ WorkerSkips
    \/ WorkerWrites
    \/ EditAndRunAgain

SpecRuns == InitRuns /\ [][NextRuns]_vars

(***************************************************************************)
(* The configuration manager (config_manager.py).  A configuration is a    *)
(* function from section names to functions from keys to values; a Python  *)
(* value is written as its repr ("1000", "8.0", "True", "'name'").         *)
(* config.json holds a text: complete JSON, whose document maps sections   *)
(* to keys to JSON literals, or a text json.load rejects.                  *)
(***************************************************************************)
MaxLoads == 2           \* load_config calls in one behaviour

\* the object the name `true` is bound to by line 5
\* (from traits.trait_types import true): a trait object, not a bool.  (With
\* a traits release that has no such name the import raises and no function
\* of the module can be called at all.)
TraitBool == "<traits.trait_types.Bool>"

DEFAULT_CONFIG ==
    [document_settings |->
        [max_length |-> "1000", min_length |-> "300",
         sentence_integrity_weight |-> "8.0", table_length_factor |-> "1.2"],
     processing_options |->
        [debug_mode |-> "False", output_folder |-> "'shu chu wen jian jia'",
         skip_existing |-> "True"],
     advanced_settings |->
        [min_split_score |-> "7", heading_score_bonus |-> "10",
         sentence_end_score_bonus |-> "6", length_score_factor |-> "100",
         search_window |-> "5", heading_after_penalty |-> "12",
         force_split_before_heading |-> TraitBool]]

\* json's encoding of a value, and json's decoding of a literal
JsonOf(v) ==
    CASE v = "True" -> "true"
      [] v = "False" -> "false"
      [] v = "'shu chu wen jian jia'" -> "\"shu chu wen jian jia\""
      [] v = "'out'" -> "\"out\""
      [] v = "'.'" -> "\".\""
      [] OTHER -> v
PyOf(lit) ==
    CASE lit = "true" -> "True"
      [] lit = "false" -> "False"
      [] lit = "\"shu chu wen jian jia\"" -> "'shu chu wen jian jia'"
      [] lit = "\"out\"" -> "'out'"
      [] lit = "\".\"" -> "'.'"
      [] OTHER -> lit

Serializable(cfg) ==
    \A sec \in DOMAIN cfg : \A key \in DOMAIN cfg[sec] : cfg[sec][key] # TraitBool

\* the text json.dump(cfg, f, ensure_ascii=False, indent=2) leaves in f: the
\* encoder writes chunk by chunk and raises TypeError at the first value it
\* cannot encode, the text written so far staying in the file
Dump(cfg) ==
    IF Serializable(cfg)
    THEN [complete |-> TRUE,
          doc |-> [sec \in DOMAIN cfg |-> [key \in DOMAIN cfg[sec] |-> JsonOf(cfg[sec][key])]]]
    ELSE [complete |-> FALSE, doc |-> <<>>]

\* json.load(f) of a complete text
Parse(text) ==
    [sec \in DOMAIN text.doc |-> [key \in DOMAIN text.doc[sec] |-> PyOf(text.doc[sec][key])]]

\* a JSON value that is no object (a number, null) where a section is
\* expected is written as the function from the reserved key "$scalar" to
\* its literal; no object of the model has that key
Scalar(lit) == [key \in {"$scalar"} |-> lit]
IsScalar(v) == "$scalar" \in DOMAIN v

\* lines 56-62 raise TypeError (`key not in config[section]` on a value that
\* is no container) when a known section of the file is no object
BackfillRaises(cfg, defaults) ==
    \E sec \in DOMAIN defaults \cap DOMAIN cfg : IsScalar(cfg[sec])

\* a load that treats every section found in the file as complete
backfill_sections_only(cfg, defaults) ==
    [sec \in DOMAIN cfg \cup DOMAIN defaults |->
        IF sec \notin DOMAIN cfg THEN defaults[sec] ELSE cfg[sec]]

\* lines 56-62
Backfill(cfg, defaults) ==
    [sec \in DOMAIN cfg \cup DOMAIN defaults |->
        IF sec \notin DOMAIN cfg THEN defaults[sec]
        ELSE IF sec \notin DOMAIN defaults THEN cfg[sec]
        ELSE [key \in DOMAIN cfg[sec] \cup DOMAIN defaults[sec] |->
                 IF key \in DOMAIN cfg[sec] THEN cfg[sec][key] ELSE defaults[sec][key]]]

NoConfigFile == [exists |-> FALSE, text |-> <<>>]
ConfigFile(text) == [exists |-> TRUE, text |-> text]

\* configuration files a user may have left: some sections, with or without
\* advanced_settings.search_window, with own values; possibly a section and
\* a key load_config does not know ("notes", "author"), possibly a number
\* where the object of processing_options is expected
UserConfig(sections, max_length, folder, with_window) ==
    [sec \in sections |->
        IF sec = "document_settings"
        THEN [DEFAULT_CONFIG[sec] EXCEPT !.max_length = max_length]
        ELSE IF sec = "processing_options"
        THEN IF folder = "7" THEN Scalar("7")
             ELSE [DEFAULT_CONFIG[sec] EXCEPT !.output_folder = folder]
        ELSE IF sec = "notes"
        THEN [key \in {"author"} |-> "1"]
        ELSE IF with_window
        THEN [DEFAULT_CONFIG[sec] EXCEPT !.force_split_before_heading = "True"]
        ELSE [key \in DOMAIN DEFAULT_CONFIG[sec] \ {"search_window"} |->
                 IF key = "force_split_before_heading" THEN "True"
                 ELSE DEFAULT_CONFIG[sec][key]]]

UserConfigs ==
    { UserConfig(sections, max_length, folder, with_window) :
        sections \in SUBSET (DOMAIN DEFAULT_CONFIG \cup {"notes"}),
        max_length \in {"1000", "500"},
        folder \in {"'shu chu wen jian jia'", "'out'", "7"},
        with_window \in BOOLEAN }

InitConfig ==
    /\ config_file \in {NoConfigFile, ConfigFile([complete |-> FALSE, doc |-> <<>>])}
                        \cup {ConfigFile(Dump(c)) : c \in UserConfigs}
    /\ default_config = DEFAULT_CONFIG
    /\ loads = <<>>
    /\ PipelineIdle
    /\ PoolIdle
    /\ WalkIdle
    /\ CliIdle
    /\ ExcelIdle
    /\ ExtractIdle
    /\ BoundaryIdle

CanLoad == Len(loads) < MaxLoads

Loaded(before, status, value, after) ==
    Append(loads, [file_before |-> before, status |-> status, value |-> value,
                   file_after |-> after])

ConfigFrame == UNCHANGED <<default_config, splitVars, poolVars, walkVars, cliVars, xlVars, extractVars, boundaryVars>>

\* lines 45-49: config.json is absent
LoadAbsent ==
    /\ CanLoad
    /\ ~config_file.exists
    /\ LET written == Dump(default_config) IN
       /\ config_file' = ConfigFile(written)
       /\ loads' = IF written.complete
                   THEN Loaded(config_file, "returned", default_config, config_file')
                   ELSE Loaded(config_file, "raised", <<>>, config_file')
    /\ ConfigFrame

\* a load that answers a failure with no configuration at all
config_on_error_empty(defaults) == <<>>

\* line 68
ConfigOnError(defaults) == defaults

\* lines 51-64: config.json parses
LoadParsed ==
    /\ CanLoad
    /\ config_file.exists
    /\ config_file.text.complete
    /\ ~BackfillRaises(Parse(config_file.text), default_config)
    /\ loads' = Loaded(config_file, "returned",
                       Backfill(Parse(config_file.text), default_config), config_file)
    /\ UNCHANGED config_file
    /\ ConfigFrame

\* lines 65-68: config.json does not parse
LoadParseFails ==
    /\ CanLoad
    /\ config_file.exists
    /\ ~config_file.text.complete
    /\ loads' = Loaded(config_file, "returned", ConfigOnError(default_config),
                       config_file)
    /\ UNCHANGED config_file
    /\ ConfigFrame

\* lines 51-62, 65-68: config.json parses, the backfill raises TypeError
LoadBackfillFails ==
    /\ CanLoad
    /\ config_file.exists
    /\ config_file.text.complete
    /\ BackfillRaises(Parse(config_file.text), default_config)
    /\ loads' = Loaded(config_file, "returned", ConfigOnError(default_config),
                       config_file)
    /\ UNCHANGED config_file
    /\ ConfigFrame

\* lines 71-81: save_config of the configuration the caller loaded last
SaveConfig ==
    /\ loads # <<>>
    /\ Last(loads).status = "returned"
    /\ config_file' = ConfigFile(Dump(Last(loads).value))
    /\ config_file' # config_file
    /\ UNCHANGED loads
    /\ ConfigFrame

NextConfig ==
    \/ LoadAbsent
    \/ LoadParsed
    \/ LoadParseFails
    \/ LoadBackfillFails
    \/ SaveConfig

SpecConfig == InitConfig /\ [][NextConfig]_vars

(***************************************************************************)
(* The menu loops and their configuration edit flows: split_word.main with *)
(* config_manager.edit_config, and main.main with edit_config_interactive. *)
(* cli.at is 0 in the menu and k at the k-th prompt of the edit flow;      *)
(* cli.loop is "running", "exited" (choice 4) or "raised" (an exception    *)
(* left the loop).                                                         *)
(***************************************************************************)
MaxEdits == 1           \* times choice '3' is taken in one run of a menu

\* the lines tried at a prompt of edit_config
EditLines(kind) ==
    CASE kind = "int" -> {"", " ", "5", "2.5"}
      [] kind = "float" -> {"", "2.5", "x"}
      [] kind = "str" -> {"", "out"}
      [] OTHER -> {"", "y", "n"}

\* str.strip() of a typed line
StripLine(text) == IF text = " " THEN "" ELSE text

\* int(text) and float(text): the value's repr, or ValueError
IntOf(text) ==
    IF text = "5" THEN [ok |-> TRUE, value |-> "5"] ELSE [ok |-> FALSE, value |-> ""]
FloatOf(text) ==
    CASE text = "5" -> [ok |-> TRUE, value |-> "5.0"]
      [] text = "2.5" -> [ok |-> TRUE, value |-> "2.5"]
      [] OTHER -> [ok |-> FALSE, value |-> ""]
ReprOf(text) ==
    CASE text = "out" -> "'out'"
      [] text = "5" -> "'5'"
      [] text = "2.5" -> "'2.5'"
      [] text = "x" -> "'x'"
      [] text = "y" -> "'y'"
      [] text = "n" -> "'n'"
      [] text = " " -> "' '"
      [] OTHER -> "''"
BoolRepr(b) == IF b THEN "True" ELSE "False"

Field(section, key, kind) == [section |-> section, key |-> key, kind |-> kind]

\* the prompts of edit_config in the order their answers are applied
EditFields ==
    << Field("document_settings", "max_length", "int"),
       Field("document_settings", "min_length", "int"),
       Field("document_settings", "sentence_integrity_weight", "float"),
       Field("processing_options", "debug_mode", "bool"),
       Field("processing_options", "output_folder", "str"),
       Field("processing_options", "skip_existing", "bool"),
       Field("", "edit_advanced", "gate"),
       Field("advanced_settings", "min_split_score", "float"),
       Field("advanced_settings", "heading_score_bonus", "float"),
       Field("advanced_settings", "sentence_end_score_bonus", "float"),
       Field("advanced_settings", "length_score_factor", "int"),
       Field("advanced_settings", "search_window", "int") >>

\* the prompts of edit_config_interactive
InteractiveFields ==
    << Field("input_folder", "$scalar", "str"),
       Field("processing_options", "output_folder", "str"),
       Field("performance_settings", "parallel_processing", "bool"),
       Field("performance_settings", "num_workers", "int"),
       Field("performance_settings", "cache_size", "int"),
       Field("performance_settings", "batch_size", "int") >>

\* main.py lines 325-330, 388-393
PerformanceDefaults ==
    [parallel_processing |-> "True", num_workers |-> "0", cache_size |-> "1024",
     batch_size |-> "50"]

HasField(cfg, f) == f.section \in DOMAIN cfg /\ f.key \in DOMAIN cfg[f.section]

\* config[section][key] = value, the section created when it is not there
SetField(cfg, f, value) ==
    [sec \in DOMAIN cfg \cup {f.section} |->
        IF sec # f.section THEN cfg[sec]
        ELSE [key \in (IF sec \in DOMAIN cfg THEN DOMAIN cfg[sec] ELSE {}) \cup {f.key} |->
                 IF key = f.key THEN value ELSE cfg[sec][key]]]

\* config_manager.py lines 129-160, 173-201: one answer of edit_config
EditAnswer(cfg, f, text) ==
    LET parsed == IF f.kind = "int" THEN IntOf(text) ELSE FloatOf(text) IN
    IF StripLine(text) = "" THEN [config |-> cfg, warned |-> FALSE]
    ELSE IF f.kind \in {"int", "float"}
    THEN IF parsed.ok THEN [config |-> SetField(cfg, f, parsed.value), warned |-> FALSE]
         ELSE [config |-> cfg, warned |-> TRUE]
    ELSE IF f.kind = "bool"
    THEN [config |-> SetField(cfg, f, BoolRepr(text = "y")), warned |-> FALSE]
    ELSE [config |-> SetField(cfg, f, ReprOf(text)), warned |-> FALSE]

\* the lines Prompt.ask and Confirm.ask hand back at once; Confirm.ask asks
\* again on any other line
PromptLines(f) == IF f.kind = "bool" THEN {"", "y", "n"} ELSE {"", "5", "x", "out"}

\* main.py lines 306-358: one answer of edit_config_interactive; an empty
\* line stands for the default shown, int() of the answer is not guarded
InteractiveAnswer(cfg, f, text) ==
    LET shown == IF HasField(cfg, f) THEN cfg[f.section][f.key]
                 ELSE IF f.section = "input_folder" THEN "'.'" ELSE "'output'"
    IN IF text = "" THEN [raised |-> FALSE, config |-> SetField(cfg, f, shown)]
       ELSE IF f.kind = "int"
       THEN IF IntOf(text).ok
            THEN [raised |-> FALSE, config |-> SetField(cfg, f, IntOf(text).value)]
            ELSE [raised |-> TRUE, config |-> cfg]
       ELSE IF f.kind = "bool"
       THEN [raised |-> FALSE, config |-> SetField(cfg, f, BoolRepr(text = "y"))]
       ELSE [raised |-> FALSE, config |-> SetField(cfg, f, ReprOf(text))]

\* a complete configuration file of the user's
FullUserConfig == UserConfig(DOMAIN DEFAULT_CONFIG, "500", "'shu chu wen jian jia'", TRUE)

\* load_config() of a file that parses
LoadedFrom(file) == Backfill(Parse(file.text), DEFAULT_CONFIG)

InitEdit ==
    /\ \E variant \in {"split_word", "main"} :
          LET cfg == IF variant = "split_word" THEN FullUserConfig
                     ELSE SetField(FullUserConfig,
                                   Field("performance_settings", "batch_size", "int"),
                                   "50")
              started == IF variant = "split_word" THEN cfg
                         ELSE [cfg EXCEPT !["performance_settings"] = PerformanceDefaults]
          IN /\ config_file = ConfigFile(Dump(started))
             /\ cli = [variant |-> variant, loop |-> "running", at |-> 0, edits |-> 0,
                       config |-> started, input |-> "", warned |-> FALSE]
    /\ default_config = DEFAULT_CONFIG
    /\ loads = <<>>
    /\ PipelineIdle
    /\ PoolIdle
    /\ WalkIdle
    /\ ExcelIdle
    /\ ExtractIdle
    /\ BoundaryIdle

InMenu == cli.loop = "running" /\ cli.at = 0
EditFrame == UNCHANGED <<default_config, loads, splitVars, poolVars, walkVars, xlVars, extractVars, boundaryVars>>

\* choice '3': split_word.py line 537 with config_manager.py line 119,
\* main.py line 433
MenuEdits ==
    /\ InMenu
    /\ cli.edits < MaxEdits
    /\ cli' = [cli EXCEPT !.at = 1, !.edits = @ + 1, !.input = "", !.warned = FALSE,
                          !.config = IF cli.variant = "split_word"
                                     THEN LoadedFrom(config_file) ELSE @]
    /\ UNCHANGED config_file
    /\ EditFrame

\* choice '4'
MenuExits ==
    /\ InMenu
    /\ cli' = [cli EXCEPT !.loop = "exited"]
    /\ UNCHANGED config_file
    /\ EditFrame

\* one prompt of config_manager.edit_config
EditConfigPrompt ==
    /\ cli.loop = "running"
    /\ cli.variant = "split_word"
    /\ cli.at \in 1..Len(EditFields)
    /\ \E text \in EditLines(EditFields[cli.at].kind) :
          LET f == EditFields[cli.at]
              answer == EditAnswer(cli.config, f, text)
          IN cli' = IF f.kind = "gate"
                    THEN [cli EXCEPT !.input = text, !.warned = FALSE,
                                     !.at = IF StripLine(text) = "y" THEN @ + 1
                                            ELSE Len(EditFields) + 1]
                    ELSE [cli EXCEPT !.input = text, !.warned = answer.warned,
                                     !.config = answer.config, !.at = @ + 1]
    /\ UNCHANGED config_file
    /\ EditFrame

\* one prompt of main.edit_config_interactive; a ValueError leaves main()
\* through line 460
EditInteractivePrompt ==
    /\ cli.loop = "running"
    /\ cli.variant = "main"
    /\ cli.at \in 1..Len(InteractiveFields)
    /\ \E text \in PromptLines(InteractiveFields[cli.at]) :
          LET answer == InteractiveAnswer(cli.config, InteractiveFields[cli.at], text)
          IN cli' = IF answer.raised
                    THEN [cli EXCEPT !.input = text, !.loop = "raised"]
                    ELSE [cli EXCEPT !.input = text, !.config = answer.config,
                                     !.at = @ + 1]
    /\ UNCHANGED config_file
    /\ EditFrame

\* the end of either flow: save_config(config), then the menu's
\* config = load_config()
EditSaves ==
    /\ cli.loop = "running"
    /\ cli.at = 1 + (IF cli.variant = "split_word" THEN Len(EditFields)
                                                  ELSE Len(InteractiveFields))
    /\ config_file' = ConfigFile(Dump(cli.config))
    /\ cli' = [cli EXCEPT !.at = 0, !.config = LoadedFrom(config_file')]
    /\ EditFrame

NextEdit ==
    \/ MenuEdits
    \/ MenuExits
    \/ EditConfigPrompt
    \/ EditInteractivePrompt
    \/ EditSaves

SpecEdit == InitEdit /\ [][NextEdit]_vars

(***************************************************************************)
(* One session of main.main with the objects it shares.  load_config hands *)
(* back either the module's DEFAULT_CONFIG object itself (lines 49, 68) or *)
(* the dict parsed from the file, in which a section the file lacks is     *)
(* DEFAULT_CONFIG's own section dict (line 58) and a missing key is a      *)
(* copied value (line 62).  cli.whole says the caller's config is the      *)
(* DEFAULT_CONFIG object, cli.shared names the sections it shares with it, *)
(* cli.config holds the sections that are the caller's own.                *)
(***************************************************************************)
Ref(whole, shared, own) == [whole |-> whole, shared |-> shared, own |-> own]

\* what the caller reads through its reference
Seen(ref, defaults) ==
    IF ref.whole THEN defaults
    ELSE [sec \in DOMAIN ref.own \cup ref.shared |->
             IF sec \in ref.shared THEN defaults[sec] ELSE ref.own[sec]]

\* the objects after the caller's assignments turned what it reads into seen
WriteThrough(ref, defaults, seen) ==
    [defaults |-> IF ref.whole THEN seen
                  ELSE [sec \in DOMAIN defaults |->
                           IF sec \in ref.shared THEN seen[sec] ELSE defaults[sec]],
     own |-> IF ref.whole THEN <<>>
             ELSE [sec \in DOMAIN seen \ ref.shared |-> seen[sec]]]

\* config_manager.py lines 41-68, with the object handed back
load_config(file, defaults) ==
    LET parsed == Parse(file.text)
        raises == \/ BackfillRaises(parsed, defaults)
                  \/ \E sec \in DOMAIN defaults \cap DOMAIN parsed : IsScalar(defaults[sec])
    IN IF ~file.exists
       THEN [status |-> IF Dump(defaults).complete THEN "returned" ELSE "raised",
             ref |-> Ref(TRUE, {}, <<>>), file |-> ConfigFile(Dump(defaults))]
       ELSE IF ~file.text.complete \/ raises
       THEN [status |-> "returned", ref |-> Ref(TRUE, {}, <<>>), file |-> file]
       ELSE [status |-> "returned",
             ref |-> Ref(FALSE, DOMAIN defaults \ DOMAIN parsed,
                         [sec \in DOMAIN parsed |-> Backfill(parsed, defaults)[sec]]),
             file |-> file]

\* config.json as the session finds it
SessionFiles ==
    {NoConfigFile, ConfigFile([complete |-> FALSE, doc |-> <<>>])}
        \cup { ConfigFile(Dump(UserConfig(sections, "500", "'out'", TRUE))) :
                  sections \in SUBSET DOMAIN DEFAULT_CONFIG }

InitSession ==
    /\ config_file \in SessionFiles
    /\ default_config = DEFAULT_CONFIG
    /\ loads = <<>>
    /\ cli = [variant |-> "main", loop |-> "starting", at |-> 0, edits |-> 0,
              config |-> <<>>, whole |-> FALSE, shared |-> {}, input |-> ""]
    /\ PipelineIdle
    /\ PoolIdle
    /\ WalkIdle
    /\ ExcelIdle
    /\ ExtractIdle
    /\ BoundaryIdle

SessionFrame == UNCHANGED <<splitVars, poolVars, walkVars, xlVars, extractVars, boundaryVars>>

SessionRef == Ref(cli.whole, cli.shared, cli.config)

\* main.py lines 384-394: config = load_config(), performance_settings added
\* to it and saved when it has none
SessionStarts ==
    /\ cli.loop = "starting"
    /\ LET got == load_config(config_file, default_config)
           seen == Seen(got.ref, default_config)
           adds == "performance_settings" \notin DOMAIN seen
           after == IF adds
                    THEN WriteThrough(got.ref, default_config,
                             [sec \in DOMAIN seen \cup {"performance_settings"} |->
                                 IF sec = "performance_settings" THEN PerformanceDefaults
                                 ELSE seen[sec]])
                    ELSE [defaults |-> default_config, own |-> got.ref.own]
       IN IF got.status = "raised"
          THEN /\ cli' = [cli EXCEPT !.loop = "raised"]
               /\ config_file' = got.file
               /\ loads' = Loaded(config_file, "raised", <<>>, got.file)
               /\ UNCHANGED default_config
          ELSE /\ default_config' = after.defaults
               /\ cli' = [cli EXCEPT !.loop = "running", !.config = after.own,
                                     !.whole = got.ref.whole, !.shared = got.ref.shared]
               /\ config_file' = IF adds
                                 THEN ConfigFile(Dump(Seen(Ref(got.ref.whole, got.ref.shared,
                                                               after.own), after.defaults)))
                                 ELSE got.file
               /\ loads' = Loaded(config_file, "returned", seen, got.file)
    /\ SessionFrame

\* choice '3': main.py line 433
SessionEdits ==
    /\ InMenu
    /\ cli.edits < MaxEdits
    /\ cli' = [cli EXCEPT !.at = 1, !.edits = @ + 1, !.input = ""]
    /\ UNCHANGED <<config_file, default_config, loads>>
    /\ SessionFrame

\* choice '4'
SessionExits ==
    /\ InMenu
    /\ cli' = [cli EXCEPT !.loop = "exited"]
    /\ UNCHANGED <<config_file, default_config, loads>>
    /\ SessionFrame

\* main.py lines 306-358: one prompt of edit_config_interactive, its
\* assignment made through the caller's reference
SessionPrompt ==
    /\ cli.loop = "running"
    /\ cli.at \in 1..Len(InteractiveFields)
    /\ \E text \in PromptLines(InteractiveFields[cli.at]) :
          LET answer == InteractiveAnswer(Seen(SessionRef, default_config),
                                          InteractiveFields[cli.at], text)
              after == WriteThrough(SessionRef, default_config, answer.config)
          IN IF answer.raised
             THEN /\ cli' = [cli EXCEPT !.input = text, !.loop = "raised"]
                  /\ UNCHANGED default_config
             ELSE /\ cli' = [cli EXCEPT !.input = text, !.config = after.own, !.at = @ + 1]
                  /\ default_config' = after.defaults
    /\ UNCHANGED <<config_file, loads>>
    /\ SessionFrame

\* main.py lines 361 and 435: save_config(config), then config = load_config()
SessionSaves ==
    /\ cli.loop = "running"
    /\ cli.at = 1 + Len(InteractiveFields)
    /\ LET saved == ConfigFile(Dump(Seen(SessionRef, default_config)))
           got == load_config(saved, default_config)
       IN /\ config_file' = saved
          /\ cli' = [cli EXCEPT !.at = 0, !.config = got.ref.own, !.whole = got.ref.whole,
                                !.shared = got.ref.shared]
          /\ loads' = Loaded(saved, "returned", Seen(got.ref, default_config), saved)
    /\ UNCHANGED default_config
    /\ SessionFrame

NextSession ==
    \/ SessionStarts
    \/ SessionEdits
    \/ SessionExits
    \/ SessionPrompt
    \/ SessionSaves

SpecSession == InitSession /\ [][NextSession]_vars

(***************************************************************************)
(* Spreadsheet conversion (excel_processor.py).  A worksheet is a grid of  *)
(* cell values with its merged ranges; a merged range is written with its  *)
(* inclusive 1-based corners r1, r2, c1, c2.  Positions inside the parser  *)
(* are the ones the reading library uses: 1-based under openpyxl (xlsx),   *)
(* 0-based under xlrd (xls).  A data frame is a sequence of rows, its cell *)
(* df.iat[r, c] being df[r + 1][c + 1].  A workbook has one sheet.         *)
(***************************************************************************)
MaxRows == 2            \* rows of a worksheet
MaxCols == 3            \* columns of a worksheet
MaxMerges == 1          \* merged ranges of a worksheet

EmptyCell == "<empty>"  \* a cell without a value: None in openpyxl, '' in xlrd
CellValues == {EmptyCell, "X"}

Ranges ==
    {rg \in [r1 : 1..MaxRows, r2 : 1..MaxRows, c1 : 1..MaxCols, c2 : 1..MaxCols] :
        rg.r1 <= rg.r2 /\ rg.c1 <= rg.c2 /\ (rg.r1 < rg.r2 \/ rg.c1 < rg.c2)}
RangeCells(rg) == (rg.r1..rg.r2) \X (rg.c1..rg.c2)

\* worksheets as the libraries hand them over: merged ranges do not overlap
\* and only the top-left cell of a merged range holds a value
Sheets ==
    {sh \in [grid : [1..MaxRows -> [1..MaxCols -> CellValues]],
             merges : SubsetsUpTo(Ranges, MaxMerges)] :
        /\ \A a \in sh.merges : \A b \in sh.merges \ {a} :
               RangeCells(a) \cap RangeCells(b) = {}
        /\ \A a \in sh.merges : \A pos \in RangeCells(a) \ {<<a.r1, a.c1>>} :
               sh.grid[pos[1]][pos[2]] = EmptyCell}

\* str(value) of a cell value read through the library of the format
StrOfCell(format, value) ==
    IF value # EmptyCell THEN value ELSE IF format = "xlsx" THEN "None" ELSE ""

\* lines 109, 212: the bounds of a merged range as the library reports them,
\* inclusive under openpyxl, with exclusive upper bounds under xlrd
Boundaries(format, rg) ==
    IF format = "xlsx"
    THEN [min_row |-> rg.r1, max_row |-> rg.r2, min_col |-> rg.c1, max_col |-> rg.c2]
    ELSE [min_row |-> rg.r1 - 1, max_row |-> rg.r2, min_col |-> rg.c1 - 1, max_col |-> rg.c2]

\* lines 116-117, 218-219: the positions the loops of a merged range visit
LoopCells(format, b) ==
    IF format = "xlsx"
    THEN (b.min_row..b.max_row) \X (b.min_col..b.max_col)
    ELSE (b.min_row..(b.max_row - 1)) \X (b.min_col..(b.max_col - 1))

\* a reading that leaves the cells of a merged range as pandas read them
merges_ignored(format, sheet) ==
    [merge_map |-> <<>>, merge_cell |-> {}, merge_info |-> <<>>]

\* line 193: xlrd.open_workbook(file_contents=file_data) leaves the keyword
\* formatting_info at its default
formatting_info == FALSE

\* lines 108, 209: the merged ranges the library reports for the sheet:
\* ws.merged_cells.ranges under openpyxl; under xlrd ws.merged_cells, which
\* is filled only when the workbook was opened with formatting_info=True
MergedCells(format, sheet) ==
    IF format = "xlsx" \/ formatting_info THEN sheet.merges ELSE {}

\* lines 104-120, 206-222: merge_map, merge_cell and merge_info of a sheet
MergeRecords(format, sheet) ==
    LET reported == MergedCells(format, sheet)
        bounds(rg) == Boundaries(format, rg)
        master(rg) == <<bounds(rg).min_row, bounds(rg).min_col>>
        covering(pos) == CHOOSE rg \in reported : pos \in LoopCells(format, bounds(rg))
        owner(pos) == CHOOSE rg \in reported : pos = master(rg)
    IN [merge_map |->
            [pos \in UNION {LoopCells(format, bounds(rg)) : rg \in reported} |->
                sheet.grid[covering(pos).r1][covering(pos).c1]],
        merge_cell |->
            UNION {LoopCells(format, bounds(rg)) \ {master(rg)} : rg \in reported},
        merge_info |->
            [pos \in {master(rg) : rg \in reported} |->
                <<bounds(owner(pos)).max_row - bounds(owner(pos)).min_row + 1,
                  bounds(owner(pos)).max_col - bounds(owner(pos)).min_col + 1>>]]

\* lines 123, 225: pd.read_excel(..., header=None).astype(str); the frame
\* ends at the last row and the last column that hold a value, a cell
\* without a value reads 'nan'
ReadFrame(grid) ==
    LET used == {pos \in (1..MaxRows) \X (1..MaxCols) : grid[pos[1]][pos[2]] # EmptyCell}
        nrows == IF used = {} THEN 0 ELSE CHOOSE r \in 1..MaxRows :
                     /\ \E pos \in used : pos[1] = r
                     /\ \A pos \in used : pos[1] <= r
        ncols == IF used = {} THEN 0 ELSE CHOOSE c \in 1..MaxCols :
                     /\ \E pos \in used : pos[2] = c
                     /\ \A pos \in used : pos[2] <= c
    IN [r \in 1..nrows |-> [c \in 1..ncols |->
           IF grid[r][c] = EmptyCell THEN "nan" ELSE grid[r][c]]]

Shape(df) == <<Len(df), IF Len(df) = 0 THEN 0 ELSE Len(df[1])>>

\* lines 129, 231, 294: every cell of the frame is '' once stripped
AllBlank(df) == \A r \in 1..Len(df) : \A c \in 1..Len(df[r]) : df[r][c] \in {"", " "}

\* the position of the library that the frame cell df[r][c] has
FramePos(format, r, c) == IF format = "xlsx" THEN <<r, c>> ELSE <<r - 1, c - 1>>

\* lines 135-141, 237-243
Overlay(format, df, merge_map) ==
    [r \in 1..Len(df) |-> [c \in 1..Len(df[r]) |->
        IF FramePos(format, r, c) \in DOMAIN merge_map
        THEN StrOfCell(format, merge_map[FramePos(format, r, c)])
        ELSE df[r][c]]]

\* lines 160-176, 263-278: the <th> cells of one row, from column cursor col_idx
RECURSIVE HeaderRow(_, _, _, _, _, _)
HeaderRow(format, sheet, df, merged, row_idx, col_idx) ==
    LET cell_pos == IF format = "xlsx" THEN <<row_idx + 1, col_idx + 1>>
                    ELSE <<row_idx, col_idx>>
    IN IF col_idx >= Shape(df)[2] THEN <<>>
       ELSE IF cell_pos \in DOMAIN merged.merge_info
       THEN << [text |-> StrOfCell(format, sheet.grid[row_idx + 1][col_idx + 1]),
                rowspan |-> merged.merge_info[cell_pos][1],
                colspan |-> merged.merge_info[cell_pos][2],
                at |-> col_idx] >>
            \o HeaderRow(format, sheet, df, merged, row_idx,
                         col_idx + merged.merge_info[cell_pos][2])
       ELSE IF cell_pos \notin merged.merge_cell
       THEN << [text |-> df[row_idx + 1][col_idx + 1], rowspan |-> 1, colspan |-> 1,
                at |-> col_idx] >>
            \o HeaderRow(format, sheet, df, merged, row_idx, col_idx + 1)
       ELSE HeaderRow(format, sheet, df, merged, row_idx, col_idx + 1)

\* lines 13-29, 32-38
is_empty_sheet(format, sheet) ==
    IF format = "xlsx"
    THEN /\ \A r \in 1..MaxRows : \A c \in 1..MaxCols : sheet.grid[r][c] = EmptyCell
         /\ sheet.merges = {}
    ELSE Shape(ReadFrame(sheet.grid)) \in {<<0, 0>>}

Returned(blocks, locals) ==
    [status |-> "returned", error |-> "", message |-> "", cause |-> "", result |-> blocks,
     locals |-> locals]
Raised(error, message, cause) ==
    [status |-> "raised", error |-> error, message |-> message, cause |-> cause,
     result |-> <<>>, locals |-> <<>>]

\* lines 85-181 and 184-284 for the one sheet of a workbook that opens
ReadSheet(format, sheet, output_format) ==
    LET merged == MergeRecords(format, sheet)
        read == ReadFrame(sheet.grid)
        df == Overlay(format, read, merged.merge_map)
        locals == [merge_map |-> merged.merge_map, merge_cell |-> merged.merge_cell,
                   merge_info |-> merged.merge_info, read |-> read, df |-> df]
    IN IF is_empty_sheet(format, sheet) \/ AllBlank(read) THEN Returned(<<>>, <<>>)
       ELSE IF output_format = "markdown"
       THEN Returned(<< [prefix |-> "# Sheet: ", table |-> df] >>, locals)
       ELSE Returned(<< [prefix |-> "<table>",
                         table |-> [r \in 1..Len(df) |->
                                       HeaderRow(format, sheet, df, merged, r - 1, 0)]] >>,
                     locals)

\* the error messages of lines 69-74
CorruptMessage(file_type) ==
    CASE file_type = "xls" -> "xls may be damaged"
      [] file_type = "xlsx" -> "xlsx may be damaged"
      [] file_type = "csv" -> "csv may be damaged"
      [] OTHER -> "unknown format, only xls/xlsx/csv"

\* an except clause that catches every exception of every reader
caught_whatever(file_type, error) == TRUE

\* lines 69-71: the exception type parse catches around each reader
Caught(file_type, error) ==
    CASE file_type = "xls" -> error = "XLRDError"
      [] file_type = "xlsx" -> error = "KeyError"
      [] OTHER -> TRUE

\* line 66, xlrd.inspect_format: 'xls' for a compound document, 'xlsx' for
\* a workbook archive; text is no format it names, the answers tried for
\* it are None and 'csv'
inspect_format(content) ==
    CASE content.format = "xls" -> {"xls"}
      [] content.format = "xlsx" -> {"xlsx"}
      [] content.format = "csv" -> {"none", "csv"}
      [] OTHER -> {"none"}

\* line 79, the call parser(file_bytes, verbose=..., output_format=...):
\* what the reader returns or raises.  parse_csv (line 287) takes file_data
\* only, the call with the two keywords raises TypeError before its body.
CallReader(file_type, content, output_format) ==
    IF file_type = "csv" THEN Raised("TypeError", "unexpected keyword argument", "")
    ELSE IF content.damage # "" THEN Raised(content.damage, "", "")
    ELSE ReadSheet(file_type, content.sheet, output_format)

\* lines 78-82
Dispatch(file_type, content, output_format) ==
    LET res == CallReader(file_type, content, output_format) IN
    IF res.status = "raised" /\ Caught(file_type, res.error)
    THEN Raised("ValueError", CorruptMessage(file_type), res.error)
    ELSE res

BlankSheet == [grid |-> [r \in 1..MaxRows |-> [c \in 1..MaxCols |-> EmptyCell]],
               merges |-> {}]

\* the bytes handed to parse: a workbook that opens, a workbook whose
\* reader raises (the error parse expects of it, or another one), the text
\* of a table (csv_rows), or something else
Contents ==
    [format : {"xls", "xlsx"}, damage : {""}, sheet : Sheets, csv_rows : {<<>>}]
    \cup [format : {"xls"}, damage : {"XLRDError", "struct.error"}, sheet : {BlankSheet},
          csv_rows : {<<>>}]
    \cup [format : {"xlsx"}, damage : {"KeyError", "BadZipFile"}, sheet : {BlankSheet},
          csv_rows : {<<>>}]
    \cup [format : {"csv"}, damage : {""}, sheet : {BlankSheet},
          csv_rows : {<< <<"X", "X">> >>, << <<" ", " ">> >>}]
    \cup [format : {"other"}, damage : {""}, sheet : {BlankSheet}, csv_rows : {<<>>}]

\* the argument of parse: a path with what is found there, bytes, a BytesIO
\* at some read position, or a value of another type
Inputs ==
    [kind : {"path"}, found : {"file", "directory", "nothing"}, content : Contents]
    \cup [kind : {"bytes", "BytesIO"}, found : {"file"}, content : Contents]
    \cup [kind : {"int"}, found : {"file"}, content : {CHOOSE c \in Contents : c.format = "other"}]

InitExcel ==
    /\ \E input \in Inputs : \E output_format \in {"markdown", "html"} :
          xl = [stage |-> "called", input_data |-> input, output_format |-> output_format,
                file_bytes |-> <<>>, file_type |-> "", outcome |-> <<>>]
    /\ PipelineIdle
    /\ PoolIdle
    /\ WalkIdle
    /\ ConfigIdle
    /\ CliIdle
    /\ ExtractIdle
    /\ BoundaryIdle

ExcelFrame == UNCHANGED <<splitVars, poolVars, walkVars, cfgVars, cliVars, extractVars, boundaryVars>>

\* lines 51-64
ParseReadsInput ==
    /\ xl.stage = "called"
    /\ xl' = IF xl.input_data.kind = "int"
             THEN [xl EXCEPT !.stage = "done",
                             !.outcome = Raised("TypeError", "not a valid type", "")]
             ELSE IF xl.input_data.found = "nothing"
             THEN [xl EXCEPT !.stage = "done",
                             !.outcome = Raised("FileNotFoundError", "is not exists", "")]
             ELSE IF xl.input_data.found = "directory"
             THEN [xl EXCEPT !.stage = "done",
                             !.outcome = Raised("ValueError", "is not a file", "")]
             ELSE [xl EXCEPT !.stage = "read", !.file_bytes = xl.input_data.content]
    /\ ExcelFrame

\* lines 66-77
ParseSniffs ==
    /\ xl.stage = "read"
    /\ \E file_type \in inspect_format(xl.file_bytes) :
          xl' = IF file_type = "none"
                THEN [xl EXCEPT !.stage = "done", !.file_type = file_type,
                                !.outcome = Raised("ValueError", CorruptMessage("none"), "")]
                ELSE [xl EXCEPT !.stage = "sniffed", !.file_type = file_type]
    /\ ExcelFrame

\* lines 78-82
ParseCallsReader ==
    /\ xl.stage = "sniffed"
    /\ xl' = [xl EXCEPT !.stage = "done",
                        !.outcome = Dispatch(xl.file_type, xl.file_bytes, xl.output_format)]
    /\ ExcelFrame

NextExcel ==
    \/ ParseReadsInput
    \/ ParseSniffs
    \/ ParseCallsReader

SpecExcel == InitExcel /\ [][NextExcel]_vars

(***************************************************************************)
(* extract_elements_info (text_analysis.py): the body of a document in     *)
(* layout order, paragraphs and tables alike.  A table carries the texts   *)
(* of its cells in row order; table_length_factor is written in tenths     *)
(* (12 for 1.2), the factors tried being ones whose products with a count  *)
(* are exact in floating point.  None is written -1.                       *)
(***************************************************************************)
MaxCells == 2           \* cells of a table
MaxCellChars == 4       \* characters of a short cell text

TableWith(cells) ==
    [kind |-> "table", style |-> "Normal", text |-> <<>>, rows |-> 1, copy |-> "ok",
     cells |-> cells]

\* lines 239-244: ' '.join of the stripped texts of the cells that have text
RECURSIVE JoinCells(_)
JoinCells(cells) ==
    IF cells = <<>> THEN <<>>
    ELSE LET rest == SelectSeq(Tail(cells), LAMBDA t : t # <<>>) IN
         IF Head(cells) = <<>> THEN JoinCells(Tail(cells))
         ELSE IF rest = <<>> THEN Strip(Head(cells))
         ELSE Strip(Head(cells)) \o <<Space>> \o JoinCells(Tail(cells))

\* a length taken to the nearest integer, ties to the even one
length_rounded(count, factor) ==
    LET q == (count * factor) \div 10
        r == (count * factor) % 10
    IN IF r > 5 \/ (r = 5 /\ q % 2 = 1) THEN q + 1 ELSE q

\* line 245: int(len(tbl_text) * table_length_factor)
TableLength(count, factor) == (count * factor) \div 10

\* lines 212-256, the element of body position pos
ElementInfo(doc, pos, factor) ==
    LET el == doc[pos]
        before == SubSeq(doc, 1, pos - 1)
        text == IF IsPara(el) THEN Strip(el.text) ELSE JoinCells(el.cells)
    IN IF IsPara(el)
       THEN [type |-> "para", i_para |-> Len(SelectSeq(before, IsPara)), i_table |-> -1,
             text |-> text, length |-> Len(text),
             is_heading |-> StartsWith(<<el.style>>, <<"Heading">>),
             is_list_item |-> is_list_item(text),
             ends_with_period |-> EndsWithTerminal(text)]
       ELSE [type |-> "table", i_para |-> -1, i_table |-> Len(SelectSeq(before, IsTable)),
             text |-> text, length |-> TableLength(Len(text), factor),
             is_heading |-> FALSE, is_list_item |-> FALSE, ends_with_period |-> TRUE]

extract_elements_info(doc, table_length_factor) ==
    [pos \in 1..Len(doc) |-> ElementInfo(doc, pos, table_length_factor)]

CellTexts ==
    {<<>>, <<" ">>, <<" ", "a">>, Rep("a", 50)} \cup {Rep("a", k) : k \in 1..MaxCellChars}

ExtractDocs ==
    {lead \o <<TableWith(cells)>> :
        lead \in {<<>>, <<Para("Normal", <<"a", ".">>)>>, <<Para("Heading", <<"a">>)>>},
        cells \in UNION {[1..n -> CellTexts] : n \in 1..MaxCells}}

InitExtract ==
    /\ \E doc \in ExtractDocs : \E factor \in {5, 10, 12, 15} :
          extract = [stage |-> "called", doc |-> doc, table_length_factor |-> factor,
                     elements |-> <<>>]
    /\ PipelineIdle
    /\ PoolIdle
    /\ WalkIdle
    /\ ConfigIdle
    /\ CliIdle
    /\ ExcelIdle
    /\ BoundaryIdle

ExtractElements ==
    /\ extract.stage = "called"
    /\ extract' = [extract EXCEPT
                      !.stage = "returned",
                      !.elements = extract_elements_info(extract.doc,
                                                         extract.table_length_factor)]
    /\ UNCHANGED <<splitVars, poolVars, walkVars, cfgVars, cliVars, xlVars, boundaryVars>>

NextExtract == ExtractElements

SpecExtract == InitExtract /\ [][NextExtract]_vars

(***************************************************************************)
(* Calls of find_nearest_sentence_boundary (text_analysis.py lines 56-77)  *)
(* on paragraph lists with every pattern of boundaries.                    *)
(***************************************************************************)
MaxNear == 6          \* paragraphs of the list searched
MaxWindow == 3        \* largest search_window tried

NearTexts == { <<"a", "a">>, <<"a", ".">> }

NearLists ==
    { analyze_document([n \in 1..Len(texts) |-> Para("Normal", texts[n])]) :
        texts \in SeqsUpTo(NearTexts, MaxNear) \ {<<>>} }

InitNearest ==
    /\ \E infos \in NearLists :
       \E current_index \in 0..(Len(infos) - 1) :
       \E search_window \in 0..MaxWindow :
          boundary = [stage |-> "called", paragraphs_info |-> infos,
                      current_index |-> current_index,
                      search_window |-> search_window, best_index |-> -1]
    /\ PipelineIdle
    /\ PoolIdle
    /\ WalkIdle
    /\ ConfigIdle
    /\ CliIdle
    /\ ExcelIdle
    /\ ExtractIdle

NearestReturns ==
    /\ boundary.stage = "called"
    /\ boundary' = [boundary EXCEPT
                       !.stage = "returned",
                       !.best_index = find_nearest_sentence_boundary(
                                          boundary.paragraphs_info,
                                          boundary.current_index,
                                          boundary.search_window)]
    /\ UNCHANGED <<splitVars, poolVars, walkVars, cfgVars, cliVars, xlVars, extractVars>>

NextNearest == NearestReturns

SpecNearest == InitNearest /\ [][NextNearest]_vars

(***************************************************************************)
(* Calls of is_sentence_boundary (text_analysis.py lines 22-53) on texts   *)
(* of Chinese characters with at most one punctuation mark each.           *)
(***************************************************************************)
MaxBefore == 8        \* characters of text_before
MaxAfter == 7         \* characters of text_after

\* the texts of up to n characters "H" that hold at most one mark "."
MarkedTexts(n) ==
    {t \in SeqsUpTo({"H", "."}, n) :
        Cardinality({p \in 1..Len(t) : t[p] \in TerminalPunct}) <= 1}

InitBoundary ==
    /\ \E text_before \in MarkedTexts(MaxBefore) :
       \E text_after \in MarkedTexts(MaxAfter) :
          boundary = [stage |-> "called", text_before |-> text_before,
                      text_after |-> text_after, returned |-> FALSE]
    /\ PipelineIdle
    /\ PoolIdle
    /\ WalkIdle
    /\ ConfigIdle
    /\ CliIdle
    /\ ExcelIdle
    /\ ExtractIdle

BoundaryReturns ==
    /\ boundary.stage = "called"
    /\ boundary' = [boundary EXCEPT
                       !.stage = "returned",
                       !.returned = is_sentence_boundary(boundary.text_before,
                                                         boundary.text_after)]
    /\ UNCHANGED <<splitVars, poolVars, walkVars, cfgVars, cliVars, xlVars, extractVars>>

NextBoundary == BoundaryReturns

SpecBoundary == InitBoundary /\ [][NextBoundary]_vars

(***************************************************************************)
(* Properties of the document pipeline.                                    *)
(***************************************************************************)

\* C1: the final split-point list (find_split_points, then refine_split_points)
\* is strictly ascending, so without duplicates, never contains index 0, and
\* every index in it is smaller than the number of elements.
C1_FinalSplitPointsValid ==
    \A n \in 1..Len(final_split_points) :
        /\ final_split_points[n] >= 1
        /\ final_split_points[n] < Len(paragraphs_info)
        /\ n < Len(final_split_points) => final_split_points[n] < final_split_points[n + 1]

\* refinement has run on a list that held a duplicate or was out of order
C1_Witness ==
    /\ pc = "write"
    /\ Len(final_split_points) >= 1
    /\ final_split_points # refine_unsorted(paragraphs_info, split_points, config.search_window)

\* the output elements that are not marker paragraphs
NotMarkerText(e) == e.text # Marker
MarkerText(e) == e.kind = "para" /\ e.text = Marker

C4_SkipExistingWritesNothing ==
    [][(config.skip_existing /\ output_file.exists) =>
          /\ output_file' = output_file
          /\ write_count' = write_count
          /\ open_count' = open_count
          /\ (pc = "start" => (pc' = "done" /\ result' = "True"))]_vars

\* the second run of a job has skipped the output the first run wrote
C4_Witness ==
    /\ config.skip_existing
    /\ runs = 2
    /\ pc = "done"
    /\ result = "True"
    /\ output_file.exists
    /\ open_count = 1
    /\ write_count = 1

\* C8: the scored sequence is the unified paragraph+table sequence of
\* extract_elements_info: every body element, tables included, is one of its
\* elements, and a split index is the element's position in the physical
\* paragraph/table order in which the markers are written.
C8_UnifiedElementSequence ==
    /\ pc \in {"find", "write"} => Len(paragraphs_info) = Len(body)
    /\ (pc = "done" /\ new_doc # <<>>) =>
           \A n \in 1..(Len(new_doc) - 1) :
               MarkerText(new_doc[n]) => (new_doc[n + 1].src - 1) \in Range(final_split_points)

IsDefaultConfig == config \in {DefaultConfig(s) : s \in BOOLEAN}
NoHeadings == \A n \in 1..Len(body) : body[n].style # "Heading"
Distance(a, b) == IF a >= b THEN a - b ELSE b - a

\* C9 as stated: in a run of short uniform paragraphs, two committed split
\* points are closer than 3 indices only when the later one was committed
\* by the forced-split branch.
C9_OnlyForcedSplitsAreClose ==
    IsDefaultConfig =>
        \A m \in 1..Len(split_points) : \A n \in 1..(m - 1) :
            Distance(split_points[m], split_points[n]) < 3 => committed_by[m] = "forced"

\* C9, amended: in a run of short uniform paragraphs that are not headings,
\* under the default configuration, any two committed split points are at
\* least 3 indices apart; and under every configuration a point committed by
\* the forced-split branch lies more than 3 indices after the point
\* committed before it.
C9_ShortRunSpacing ==
    /\ (IsDefaultConfig /\ NoHeadings) =>
           \A m \in 1..Len(split_points) : \A n \in 1..(m - 1) :
               Distance(split_points[m], split_points[n]) >= 3
    /\ \A m \in 2..Len(split_points) :
           committed_by[m] = "forced" => split_points[m] - split_points[m - 1] > 3

\* a run of 20 short non-heading paragraphs got six split points
C9_Witness ==
    /\ IsDefaultConfig
    /\ NoHeadings
    /\ Len(body) = 20
    /\ pc = "write"
    /\ Len(split_points) >= 6

(***************************************************************************)
(* Properties of the orchestrator.                                         *)
(***************************************************************************)
FailingJobs == {j \in 1..Len(jobs) : jobs[j] # "ok"}

\* C3: with N discovered jobs of which the set F fails (returns failure or
\* raises), the parallel path, batched or not, and the sequential path report
\* total = N, succeeded = N - |F| and a failed list holding exactly the input
\* paths of F, and every job has been executed, wherever the failing jobs are.
C3_FailuresAreIsolated ==
    (ppc = "returned" /\ ~pool_error) =>
        /\ total_files = Len(jobs)
        /\ processed_files = Len(jobs) - Cardinality(FailingJobs)
        /\ Range(failed_files) = FailingJobs
        /\ Len(failed_files) = Cardinality(FailingJobs)
        /\ \A j \in 1..Len(jobs) : exec_count[j] >= 1

\* a batched pooled run of three jobs, the first raising and the last
\* returning failure, has returned
C3_Witness ==
    /\ ppc = "returned"
    /\ ~pool_error
    /\ jobs = <<"raise", "ok", "false">>
    /\ perf_settings.parallel_processing
    /\ perf_settings.batch_size = 2
    /\ failed_files = <<1, 3>>

\* C6: the pool's size is min(w, job_count, 8) with w = num_workers if
\* num_workers > 0 else max(1, cpu_count - 1); it lies in 1..8 and never
\* exceeds the job count.
C6_WorkerCount ==
    ppc = "submit" =>
        LET w == IF perf_settings.num_workers > 0 THEN perf_settings.num_workers
                 ELSE IF cpu_count - 1 >= 1 THEN cpu_count - 1 ELSE 1
            least == CHOOSE x \in {w, total_files, 8} : \A y \in {w, total_files, 8} : x <= y
        IN /\ num_workers = least
           /\ num_workers \in 1..8
           /\ num_workers <= total_files

\* num_workers = 0, 3 jobs and 16 cores give 3 workers
C6_Witness ==
    /\ ppc = "submit"
    /\ perf_settings.num_workers = 0
    /\ total_files = 3
    /\ cpu_count = 16
    /\ num_workers = 3

RECURSIVE FailedOf(_)
\* the failing jobs of a sequence of tasks, in that sequence's order
FailedOf(task_order) ==
    IF task_order = <<>> THEN <<>>
    ELSE CountResults(tasks[Head(task_order)], jobs, 0, <<>>).failed \o FailedOf(Tail(task_order))

\* C7 as stated: under pooled execution the failed list follows the order in
\* which the jobs completed, not the order of discovery.
C7_FailedListInCompletionOrder ==
    (ppc = "returned" /\ ~pool_error /\ tasks # <<>>) => failed_files = FailedOf(completed)

\* C7, amended: under pooled execution, where jobs may complete in any order,
\* the failed list follows discovery order whatever the completion order.
C7_FailedListInDiscoveryOrder ==
    /\ \A m \in 1..Len(failed_files) : \A n \in 1..(m - 1) : failed_files[n] < failed_files[m]
    /\ (ppc = "returned" /\ ~pool_error /\ tasks # <<>>) =>
           failed_files = FailedOf([t \in 1..Len(tasks) |-> t])

\* two failing jobs completed in the reverse of their discovery order
C7_Witness ==
    /\ ppc = "returned"
    /\ ~pool_error
    /\ Len(failed_files) >= 2
    /\ \E m \in 1..Len(completed) : \E n \in 1..(m - 1) :
           /\ completed[n] > completed[m]
           /\ jobs[tasks[completed[n]][1]] # "ok"
           /\ jobs[tasks[completed[m]][1]] # "ok"

(***************************************************************************)
(* Properties of file discovery.                                           *)
(***************************************************************************)
Hidden(component) == Head(component) = "."

\* C5: collect_files_to_process returns exactly one job for every file under
\* the scan root whose name ends in .doc or .docx, does not start with ~$,
\* and lies neither in the output-folder subtree nor in or beneath a hidden
\* directory, and nothing else; a job's output path is the output root
\* joined with the input's path relative to the scan root.
C5_ExactJobSet ==
    (pending = {} /\ output_folder # <<>>) =>
        LET wanted == {f \in tree :
                          /\ Last(f.name) \in {".docx", ".doc"}
                          /\ Head(f.name) # "~$"
                          /\ ~(f.dir # <<>> /\ Head(f.dir) = output_folder)
                          /\ \A k \in 1..Len(f.dir) : ~Hidden(f.dir[k])}
        IN /\ {walk_jobs[n].input : n \in 1..Len(walk_jobs)} = wanted
           /\ Len(walk_jobs) = Cardinality(wanted)
           /\ \A n \in 1..Len(walk_jobs) :
                  /\ walk_jobs[n].output.name = walk_jobs[n].input.name
                  /\ walk_jobs[n].output.dir = <<output_folder>> \o walk_jobs[n].input.dir

(***************************************************************************)
(* Properties of the configuration manager.                                *)
(***************************************************************************)

\* C10: when config.json is absent, load_config creates it with content
\* equal to the literal default document and returns that content; a second
\* load_config with no edit in between returns an equal configuration and
\* leaves the file content unchanged.
C10_BootstrapThenIdempotent ==
    \A n \in 1..Len(loads) :
        ~loads[n].file_before.exists =>
            /\ loads[n].status = "returned"
            /\ loads[n].value = DEFAULT_CONFIG
            /\ loads[n].file_after.exists
            /\ loads[n].file_after.text.complete
            /\ Parse(loads[n].file_after.text) = DEFAULT_CONFIG
            /\ (n < Len(loads) /\ loads[n + 1].file_before = loads[n].file_after) =>
                   /\ loads[n + 1].status = "returned"
                   /\ loads[n + 1].value = loads[n].value
                   /\ loads[n + 1].file_after = loads[n].file_after

\* the configuration a load found in the file it read
InFile(load) == Parse(load.file_before.text)
ParsedLoad(load) == load.file_before.exists /\ load.file_before.text.complete
LacksKnown(cfg) ==
    \E sec \in DOMAIN DEFAULT_CONFIG :
        \/ sec \notin DOMAIN cfg
        \/ ~IsScalar(cfg[sec]) /\ DOMAIN DEFAULT_CONFIG[sec] \ DOMAIN cfg[sec] # {}
KnownSectionsAreObjects(cfg) ==
    \A sec \in DOMAIN DEFAULT_CONFIG \cap DOMAIN cfg : ~IsScalar(cfg[sec])

\* what C11 asks of a load: every section and key of the file is returned
\* with the file's value, every missing known section or key with the
\* default's value, and nothing else is returned
BackfilledExactly(load) ==
    LET cfg == InFile(load)
        val == load.value
    IN /\ load.status = "returned"
       /\ DOMAIN val = DOMAIN cfg \cup DOMAIN DEFAULT_CONFIG
       /\ \A sec \in DOMAIN val :
              IF sec \notin DOMAIN cfg THEN val[sec] = DEFAULT_CONFIG[sec]
              ELSE IF sec \notin DOMAIN DEFAULT_CONFIG \/ IsScalar(cfg[sec])
              THEN val[sec] = cfg[sec]
              ELSE /\ DOMAIN val[sec] = DOMAIN cfg[sec] \cup DOMAIN DEFAULT_CONFIG[sec]
                   /\ \A key \in DOMAIN val[sec] :
                          val[sec][key] = IF key \in DOMAIN cfg[sec]
                                          THEN cfg[sec][key]
                                          ELSE DEFAULT_CONFIG[sec][key]

\* C11 (as stated): whenever config.json parses but lacks a known section
\* or a key of a known section, load_config returns the default value for
\* exactly the missing sections and keys and every value present in the
\* file, unknown sections and keys included, unchanged.
C11_BackfillKeepsFileValues ==
    \A n \in 1..Len(loads) :
        (ParsedLoad(loads[n]) /\ LacksKnown(InFile(loads[n])))
            => BackfilledExactly(loads[n])

\* C11 (amended): the same, for a file whose known sections are all JSON
\* objects; a file with a known section that is no object gets the whole
\* default configuration and none of its own values.
C11_BackfillOfObjectSections ==
    \A n \in 1..Len(loads) :
        (ParsedLoad(loads[n]) /\ LacksKnown(InFile(loads[n])))
            => IF KnownSectionsAreObjects(InFile(loads[n]))
               THEN BackfilledExactly(loads[n])
               ELSE loads[n].status = "returned" /\ loads[n].value = DEFAULT_CONFIG

\* a load of a file that has its own max_length, an unknown section, and
\* no advanced_settings.search_window, returning search_window 5
C11_Witness ==
    \E n \in 1..Len(loads) :
        LET cfg == InFile(loads[n]) IN
        /\ ParsedLoad(loads[n])
        /\ KnownSectionsAreObjects(cfg)
        /\ "notes" \in DOMAIN cfg
        /\ "document_settings" \in DOMAIN cfg
        /\ cfg["document_settings"]["max_length"] = "500"
        /\ "advanced_settings" \in DOMAIN cfg
        /\ "search_window" \notin DOMAIN cfg["advanced_settings"]
        /\ "processing_options" \notin DOMAIN cfg
        /\ loads[n].value["advanced_settings"]["search_window"] = "5"
        /\ loads[n].value["document_settings"]["max_length"] = "500"

\* C12: when config.json exists but cannot be read or parsed, load_config
\* raises nothing, returns the default configuration and leaves the file on
\* disk as it was.
C12_ParseFailureFallsBack ==
    \A n \in 1..Len(loads) :
        (loads[n].file_before.exists /\ ~loads[n].file_before.text.complete)
            => /\ loads[n].status = "returned"
               /\ loads[n].value = DEFAULT_CONFIG
               /\ loads[n].file_after = loads[n].file_before

\* a load of a file that exists and does not parse
C12_Witness ==
    \E n \in 1..Len(loads) :
        /\ loads[n].file_before.exists
        /\ ~loads[n].file_before.text.complete
        /\ loads[n].status = "returned"

\* the field a prompt step has just asked, and the answer's reading
AskedField == IF cli.variant = "split_word" THEN EditFields[cli.at]
              ELSE InteractiveFields[cli.at]
PromptStep == cli.loop = "running" /\ cli.at >= 1
              /\ cli.at <= Len(IF cli.variant = "split_word" THEN EditFields
                                ELSE InteractiveFields)
              /\ cli' # cli
FailsToParse(kind, text) ==
    \/ kind = "int" /\ text \notin {"", " ", "5"}
    \/ kind = "float" /\ text \notin {"", " ", "5", "2.5"}

\* C13: in both variants' edit flows a numeric field whose input fails to
\* parse keeps its previous value and produces a warning, a blank input
\* keeps the current value, and no input makes the flow raise or end the
\* menu loop.
C13_EditFlowsSurviveBadInput ==
    [][ PromptStep =>
            /\ cli'.loop = "running"
            /\ FailsToParse(AskedField.kind, cli'.input) =>
                   /\ cli'.config = cli.config
                   /\ cli'.warned
            /\ (cli'.input \in {"", " "} /\ HasField(cli.config, AskedField)) =>
                   cli'.config = cli.config ]_vars

(***************************************************************************)
(* Properties of the spreadsheet converter.                                *)
(***************************************************************************)
ParseDone == xl.stage = "done"
GivenBytes == ParseDone /\ xl.input_data.kind \in {"path", "bytes", "BytesIO"}
              /\ xl.input_data.found = "file"
SheetRead(format) ==
    /\ GivenBytes
    /\ xl.file_type = format
    /\ xl.outcome.status = "returned"
    /\ xl.outcome.result # <<>>

\* C14: parse accepts CSV content given as a path, as bytes or as a byte
\* stream: the content is sniffed as csv and parse returns a list of exactly
\* one markdown block that begins with the "# Table: " line; CSV content
\* whose cells are all blank fails with the empty-dataframe error instead.
C14_CsvParsedAsOneTable ==
    (GivenBytes /\ xl.input_data.content.format = "csv") =>
        IF AllBlank(xl.input_data.content.csv_rows)
        THEN xl.outcome.status = "raised" /\ xl.outcome.message = "Empty dataframe"
        ELSE /\ xl.file_type = "csv"
             /\ xl.outcome.status = "returned"
             /\ Len(xl.outcome.result) = 1
             /\ xl.outcome.result[1].prefix = "# Table: "

\* what the overlay has to leave in the frame cell of sheet position pos
InFrame(df, pos) == pos[1] <= Shape(df)[1] /\ pos[2] <= Shape(df)[2]
MasterText(sheet, rg) ==
    IF sheet.grid[rg.r1][rg.c1] = EmptyCell THEN "None" ELSE sheet.grid[rg.r1][rg.c1]
Unmerged(sheet) ==
    ((1..MaxRows) \X (1..MaxCols)) \ UNION {RangeCells(rg) : rg \in sheet.merges}

\* C15 (as stated): in the xlsx path the overlay leaves the master's value
\* in every cell of every merged range (all four cells of a 2x2 range), the
\* covered-non-master set is the range without its top-left cell, and the
\* cells outside all merged ranges are as they were read.
C15_OverlayFillsWholeRange ==
    SheetRead("xlsx") =>
        LET sheet == xl.file_bytes.sheet
            loc == xl.outcome.locals
        IN /\ \A rg \in sheet.merges : \A pos \in RangeCells(rg) :
                  /\ InFrame(loc.df, pos)
                  /\ loc.df[pos[1]][pos[2]] = MasterText(sheet, rg)
           /\ loc.merge_cell =
                  UNION {RangeCells(rg) \ {<<rg.r1, rg.c1>>} : rg \in sheet.merges}
           /\ \A pos \in Unmerged(sheet) :
                  InFrame(loc.df, pos) => loc.df[pos[1]][pos[2]] = loc.read[pos[1]][pos[2]]

\* C15 (amended): the same for the cells of a merged range that lie inside
\* the data frame read for the sheet, which ends at the last row and column
\* holding a value; the overlay adds no cell to the frame.
C15_OverlayFillsRangeInsideFrame ==
    SheetRead("xlsx") =>
        LET sheet == xl.file_bytes.sheet
            loc == xl.outcome.locals
        IN /\ Shape(loc.df) = Shape(loc.read)
           /\ \A rg \in sheet.merges : \A pos \in RangeCells(rg) :
                  InFrame(loc.df, pos) => loc.df[pos[1]][pos[2]] = MasterText(sheet, rg)
           /\ loc.merge_cell =
                  UNION {RangeCells(rg) \ {<<rg.r1, rg.c1>>} : rg \in sheet.merges}
           /\ \A pos \in Unmerged(sheet) :
                  InFrame(loc.df, pos) => loc.df[pos[1]][pos[2]] = loc.read[pos[1]][pos[2]]

\* an xlsx sheet with a 2x2 range of master "X" and a value beside it: four
\* frame cells hold "X", three cells are covered-non-master
C15_Witness ==
    /\ SheetRead("xlsx")
    /\ \E rg \in xl.file_bytes.sheet.merges :
          /\ rg.r2 = rg.r1 + 1 /\ rg.c2 = rg.c1 + 1
          /\ xl.file_bytes.sheet.grid[rg.r1][rg.c1] = "X"
          /\ \A pos \in RangeCells(rg) :
                 /\ InFrame(xl.outcome.locals.df, pos)
                 /\ xl.outcome.locals.df[pos[1]][pos[2]] = "X"
                 /\ xl.outcome.locals.read[pos[1]][pos[2]] = "X" <=> pos = <<rg.r1, rg.c1>>
          /\ Cardinality(xl.outcome.locals.merge_cell) = 3
    /\ \E pos \in Unmerged(xl.file_bytes.sheet) : InFrame(xl.outcome.locals.df, pos)

(***************************************************************************)
(* Properties of extract_elements_info.                                    *)
(***************************************************************************)
TableElements ==
    {n \in 1..Len(extract.elements) : extract.elements[n].type = "table"}
TenthsRounded(tenths) ==
    IF tenths % 10 > 5 \/ (tenths % 10 = 5 /\ (tenths \div 10) % 2 = 1)
    THEN tenths \div 10 + 1 ELSE tenths \div 10

\* C16 (as stated): a table element has length = round(character count of
\* its joined cell text x table_length_factor) for every count and factor,
\* and ends_with_period = true, is_heading = false, is_list_item = false.
C16_TableLengthRounded ==
    extract.stage = "returned" =>
        \A n \in TableElements :
            LET el == extract.elements[n] IN
            /\ el.length = TenthsRounded(Len(el.text) * extract.table_length_factor)
            /\ el.ends_with_period /\ ~el.is_heading /\ ~el.is_list_item

\* C16 (amended): the length is the product cut to its integer part (50
\* characters with factor 1.2 give 60, 3 characters give 3), the three
\* flags as stated.
C16_TableLengthTruncated ==
    extract.stage = "returned" =>
        \A n \in TableElements :
            LET el == extract.elements[n]
                tenths == Len(el.text) * extract.table_length_factor
            IN /\ 10 * el.length <= tenths
               /\ tenths < 10 * (el.length + 1)
               /\ el.ends_with_period /\ ~el.is_heading /\ ~el.is_list_item

\* a table of 50 characters under factor 1.2, of length 60
C16_Witness ==
    /\ extract.stage = "returned"
    /\ extract.table_length_factor = 12
    /\ \E n \in TableElements :
          /\ Len(extract.elements[n].text) = 50
          /\ extract.elements[n].length = 60

(***************************************************************************)
(* C17.  A document of one non-heading paragraph.                          *)
(***************************************************************************)
SingleParagraph ==
    /\ Len(Paragraphs(body)) = 1
    /\ Paragraphs(body)[1].style # "Heading"

SplitPointsFound == pc \in {"write", "done"}

\* C17: a document that consists of one non-heading paragraph receives no
\* split marker: find_split_points leaves split_points empty, whatever the
\* paragraph's length, refine_split_points returns the empty list, and the
\* written document holds no marker paragraph.
C17_SingleParagraphNeverSplit ==
    SingleParagraph =>
        /\ split_points = <<>>
        /\ (SplitPointsFound => final_split_points = <<>>)
        /\ (pc = "done" => split_marker_count = 0 /\ ~\E n \in 1..Len(new_doc) : IsMarker(new_doc[n]))

\* the ten-character paragraph under the default settings has been written
C17_Witness ==
    /\ SingleParagraph
    /\ body[1].text = Rep("a", 10)
    /\ config = DefaultConfig(FALSE)
    /\ pc = "done"
    /\ result = "True"
    /\ Len(new_doc) = 1
    /\ final_split_points = <<>>

(***************************************************************************)
(* C18.  What makes insert_split_markers return failure.                   *)
(***************************************************************************)
Sources(doc) == {doc[n].src : n \in 1..Len(doc)}

\* every paragraph of the body, and every table with rows that got as far as
\* add_table, is in the written document, in the order of the body
AllElementsWritten(written) ==
    /\ \A n \in 1..Len(body) :
           IF IsPara(body[n]) THEN n \in Sources(written)
           ELSE (body[n].rows > 0 /\ body[n].copy # "early") <=> n \in Sources(written)
    /\ \A n \in 1..(Len(written) - 1) :
           written[n + 1].src = 0 \/ \A m \in 1..n : written[m].src < written[n + 1].src

\* C18: insert_split_markers returns False only from the step in which
\* opening the source raised or from the step in which saving the output
\* raised; an exception while copying a paragraph's formatting or a table
\* changes neither the return value nor the writing of the other elements:
\* the writing step writes every element and returns True exactly when the
\* save succeeded.
C18_OnlyOpenAndSaveFail ==
    [][/\ (result' = "False" /\ result # "False") =>
              \/ pc = "start" /\ open_count' = open_count + 1 /\ paragraphs_info' = <<>>
              \/ pc = "write" /\ output_file' = output_file /\ write_count' = write_count
       /\ (pc = "write" /\ pc' = "done") =>
              /\ AllElementsWritten(new_doc')
              /\ (result' = "True") <=> (write_count' = write_count + 1)
              /\ result' = "True" => output_file' = SavedFile(new_doc')]_vars

\* a document with a paragraph whose formatting copy raised and a table whose
\* copy raised before add_table, both ahead of a sound paragraph, was saved
C18_Witness ==
    /\ pc = "done"
    /\ result = "True"
    /\ output_file = SavedFile(new_doc)
    /\ \E p, t, q \in 1..Len(body) :
           /\ p < q /\ t < q
           /\ IsPara(body[p]) /\ body[p].copy = "format"
           /\ IsTable(body[t]) /\ body[t].copy = "early"
           /\ IsPara(body[q]) /\ body[q].copy = "ok"
           /\ \E n \in 1..Len(new_doc) : new_doc[n].src = p /\ ~new_doc[n].styled
           /\ \E n \in 1..Len(new_doc) : new_doc[n].src = q /\ new_doc[n].styled
           /\ t \notin Sources(new_doc)

(***************************************************************************)
(* C19.  The nearest sentence boundary.                                    *)
(***************************************************************************)
\* the indices i (0-based) of the window at which (elements[i-1], elements[i])
\* is a sentence boundary
NearCandidates ==
    {i \in 1..(Len(boundary.paragraphs_info) - 1) :
        /\ Distance(i, boundary.current_index) <= boundary.search_window
        /\ is_sentence_boundary(boundary.paragraphs_info[i].text,
                                boundary.paragraphs_info[i + 1].text)}

\* C19: find_nearest_sentence_boundary returns -1 exactly when no index of
\* the window is a sentence boundary; otherwise it returns such an index at
\* the smallest distance from the given one, and of two at that distance
\* the one on the backward side.
C19_NearestBoundary ==
    boundary.stage = "returned" =>
        LET best == boundary.best_index IN
        /\ best = -1 <=> NearCandidates = {}
        /\ best # -1 =>
               /\ best \in NearCandidates
               /\ \A c \in NearCandidates :
                      /\ Distance(best, boundary.current_index)
                             <= Distance(c, boundary.current_index)
                      /\ Distance(best, boundary.current_index)
                             = Distance(c, boundary.current_index) => best <= c

\* a call with a boundary one step back and one step forward returned the backward one
C19_Witness ==
    /\ boundary.stage = "returned"
    /\ boundary.current_index >= 2
    /\ boundary.current_index \notin NearCandidates
    /\ {boundary.current_index - 1, boundary.current_index + 1} \subseteq NearCandidates
    /\ boundary.best_index = boundary.current_index - 1

(***************************************************************************)
(* C20.  Punctuation near the join of the two texts.                       *)
(***************************************************************************)
CombinedText == boundary.text_before \o <<Space>> \o boundary.text_after

\* the characters between the mark at position p of the combined text and
\* the point where text_before ends
JoinDistance(p) ==
    IF p <= Len(boundary.text_before)
    THEN Len(boundary.text_before) - p
    ELSE p - Len(boundary.text_before) - 1

ChineseOpenCall ==
    /\ boundary.stage = "returned"
    /\ HasCJK(CombinedText)
    /\ ~EndsWithTerminal(boundary.text_before)

\* C20: for Chinese text whose first part does not end with terminal
\* punctuation, is_sentence_boundary answers true only if a punctuation mark
\* lies within 5 characters of the join of the two parts; a mark farther
\* away, before or after the join, does not make it true.
C20_PunctuationNearJoin ==
    (ChineseOpenCall /\ boundary.returned) =>
        \E p \in 1..Len(CombinedText) :
            /\ CombinedText[p] \in TerminalPunct
            /\ JoinDistance(p) <= NearJoin

(***************************************************************************)
(* C21.  Refinement of a split point that is not on a sentence boundary.   *)
(***************************************************************************)
Refined == pc \in {"write", "done"} /\ paragraphs_info # <<>>

\* the split points handed to refine_split_points that break a sentence
OffBoundary ==
    {p \in Range(split_points) :
        ~is_sentence_boundary(IF p > 0 THEN paragraphs_info[p].text ELSE <<>>,
                              paragraphs_info[p + 1].text)}

NearestTo(p) == find_nearest_sentence_boundary(paragraphs_info, p, config.search_window)

\* C21: a split point whose pair of elements is not a sentence boundary is
\* replaced in the result by the nearest boundary of its window whenever one
\* is found, and is kept only when none is found.
C21_OffBoundaryPointReplaced ==
    Refined =>
        \A p \in OffBoundary :
            IF NearestTo(p) >= 0
            THEN NearestTo(p) \in Range(final_split_points)
                 /\ p \notin Range(final_split_points)
            ELSE p \in Range(final_split_points)

\* the split point at place m of split_points puts b into the result
Yields(m, b) ==
    LET q == split_points[m] IN
    IF q \in OffBoundary THEN NearestTo(q) = b ELSE q = b

\* C21, amended: the nearest boundary found for an off-boundary split point
\* is always in the result; the point itself is kept exactly when no
\* boundary is found or when the boundary found was already put into the
\* result by a split point handled before it.
C21_ReplacedUnlessBoundaryTaken ==
    Refined =>
        \A n \in 1..Len(split_points) :
            LET p == split_points[n] IN
            p \in OffBoundary =>
                /\ NearestTo(p) >= 0 => NearestTo(p) \in Range(final_split_points)
                /\ p \in Range(final_split_points)
                       <=> \/ NearestTo(p) < 0
                           \/ \E m \in 1..(n - 1) : Yields(m, NearestTo(p))

\* some run replaced an off-boundary point by the boundary found for it
C21_Replaced ==
    /\ Refined
    /\ \E p \in OffBoundary :
           NearestTo(p) >= 0 /\ p \notin Range(final_split_points)

\* a run kept a forced split point whose nearest boundary was an earlier
\* split point
C21_Witness ==
    /\ Refined
    /\ \E n \in 1..Len(split_points) :
           LET p == split_points[n] IN
           /\ p \in OffBoundary
           /\ NearestTo(p) >= 0
           /\ NearestTo(p) \in Range(final_split_points)
           /\ p \in Range(final_split_points)
           /\ \E m \in 1..(n - 1) : split_points[m] = NearestTo(p)

(***************************************************************************)
(* C22.  The terms of the split score.                                     *)
(***************************************************************************)
\* a paragraph is being scored (lines 116-128)
Scoring == InLoop /\ para_info.length # 0

PrevInfo == paragraphs_info[idx]

\* the terms of the score that depend on neither lists nor earlier splits
PlainTerms ==
    (IF para_info.is_heading THEN config.heading_score_bonus ELSE 0)
    + (IF para_info.ends_with_period THEN config.sentence_end_score_bonus ELSE 0)
    + (IF idx > 0 /\ is_sentence_boundary(PrevInfo.text, para_info.text)
       THEN config.sentence_integrity_weight ELSE -10)
    + (IF NewLength >= config.min_length
       THEN Min2(4, (NewLength - config.min_length) \div config.length_score_factor)
       ELSE IF 10 * NewLength < 7 * config.min_length THEN -5 ELSE 0)
    + (IF NewLength > config.max_length THEN 4 ELSE 0)

\* +3 on a change between list item and other paragraph
AnyTransition ==
    IF idx > 0 /\ para_info.is_list_item # PrevInfo.is_list_item THEN 3 ELSE 0

\* -8 when the index is at most `near` elements away from the last committed split
WithinOfLast(near) ==
    IF split_points # <<>> /\ Distance(idx, Last(split_points)) <= near THEN -8 ELSE 0

\* C22: the score of a candidate is the sum of the heading bonus, the
\* sentence-end bonus, the integrity weight or -10, the length term, +3 on a
\* list-item transition, -8 if the index is within 3 elements of the
\* previously committed split point (read as a distance below 3 or of at
\* most 3), and +4 when over max_length.
C22_ScoreIsSumOfTerms ==
    Scoring =>
        \E near \in {2, 3} : split_score = PlainTerms + AnyTransition + WithinOfLast(near)

\* +3 where a list starts, and where a list ends after an item that ends a sentence
ListTransition ==
    IF /\ idx > 0
       /\ \/ (para_info.is_list_item /\ ~PrevInfo.is_list_item)
          \/ (~para_info.is_list_item /\ PrevInfo.is_list_item
                  /\ PrevInfo.ends_with_period)
    THEN 3 ELSE 0

\* -8 when the index is less than 3 above the last committed split, or below it
BelowThreeAboveLast ==
    IF split_points # <<>> /\ idx - Last(split_points) < 3 THEN -8 ELSE 0

\* C22, amended: the list term is +3 where a list starts and, where a list
\* ends, only if the last item ends a sentence; the adjacency term is -8
\* whenever a split has been committed and i - last < 3, which includes every
\* index before a split committed ahead, however far.
C22_ScoreTermsExact ==
    Scoring => split_score = PlainTerms + ListTransition + BelowThreeAboveLast

\* a paragraph four elements before a split committed ahead is scored with -8
C22_Witness ==
    /\ Scoring
    /\ split_points # <<>>
    /\ Last(split_points) - idx >= 4
    /\ split_score = PlainTerms + ListTransition - 8

\* a paragraph after a list item that does not end a sentence is scored without +3
C22_ListEnds ==
    /\ Scoring
    /\ idx > 0
    /\ PrevInfo.is_list_item /\ ~PrevInfo.ends_with_period /\ ~para_info.is_list_item
    /\ split_score = PlainTerms + BelowThreeAboveLast

(***************************************************************************)
(* C23.  Row and column spans in the xls rendering.                        *)
(***************************************************************************)
HtmlRead(format) == SheetRead(format) /\ xl.output_format = "html"

\* the <th> cells written for sheet position pos (1-based) in its row
CellsAt(pos) ==
    LET row == xl.outcome.result[1].table[pos[1]] IN
    {k \in 1..Len(row) : row[k].at = pos[2] - 1}

\* C23: in the xls rendering the <th> of the master of a merged range carries
\* as rowspan and colspan the numbers of rows and columns of the range, the
\* covered cells of the range get no <th>, and every cell outside all
\* merged ranges gets exactly one <th> in its row.
C23_XlsSpansMatchRange ==
    HtmlRead("xls") =>
        LET sheet == xl.file_bytes.sheet
            df == xl.outcome.locals.df
            row(r) == xl.outcome.result[1].table[r]
        IN /\ \A rg \in sheet.merges :
                  /\ InFrame(df, <<rg.r1, rg.c1>>) =>
                         \E k \in CellsAt(<<rg.r1, rg.c1>>) :
                             /\ row(rg.r1)[k].rowspan = rg.r2 - rg.r1 + 1
                             /\ row(rg.r1)[k].colspan = rg.c2 - rg.c1 + 1
                  /\ \A pos \in RangeCells(rg) \ {<<rg.r1, rg.c1>>} :
                         InFrame(df, pos) => CellsAt(pos) = {}
           /\ \A pos \in Unmerged(sheet) :
                  InFrame(df, pos) => Cardinality(CellsAt(pos)) = 1

(***************************************************************************)
(* C24.  Errors of the readers.                                            *)
(***************************************************************************)
\* the reader of the detected format was called and raised
ReaderCalled ==
    ParseDone /\ xl.file_type \in {"xls", "xlsx", "csv"} /\ xl.file_bytes # <<>>
ReaderError ==
    IF xl.file_type = "csv" THEN "TypeError" ELSE xl.file_bytes.damage
ReaderRaised == ReaderCalled /\ ReaderError # ""

IsGenericError ==
    /\ xl.outcome.status = "raised"
    /\ xl.outcome.error = "ValueError"
    /\ xl.outcome.message = CorruptMessage(xl.file_type)
    /\ xl.outcome.cause = ReaderError

\* C24: every error a reader raises reaches the caller of parse as the
\* may-be-damaged ValueError of the detected format with the reader's error
\* as its cause, never in its own type.
C24_ReaderErrorsBecomeGeneric ==
    ReaderRaised => IsGenericError

\* C24, amended: the reader's error becomes the may-be-damaged ValueError
\* exactly when it is an XLRDError of the xls reader, a KeyError of the xlsx
\* reader, or any error of the csv call; every other error of the xls and
\* xlsx readers reaches the caller in its own type.
C24_OnlyListedErrorsBecomeGeneric ==
    ReaderRaised =>
        IF \/ xl.file_type = "csv"
           \/ xl.file_type = "xls" /\ ReaderError = "XLRDError"
           \/ xl.file_type = "xlsx" /\ ReaderError = "KeyError"
        THEN IsGenericError
        ELSE /\ xl.outcome.status = "raised"
             /\ xl.outcome.error = ReaderError
             /\ xl.outcome.message # CorruptMessage(xl.file_type)

\* an xls reader's struct.error has reached the caller as it was raised
C24_Witness ==
    /\ ReaderRaised
    /\ xl.file_type = "xls"
    /\ ReaderError = "struct.error"
    /\ xl.outcome.status = "raised"
    /\ xl.outcome.error = "struct.error"

(***************************************************************************)
(* C25.  Batches and pool tasks.                                           *)
(***************************************************************************)
ParallelRun == perf_settings.parallel_processing /\ total_files > 0
Submitted == ParallelRun /\ tasks # <<>>

RECURSIVE Flattened(_)
Flattened(lists) == IF lists = <<>> THEN <<>> ELSE Head(lists) \o Flattened(Tail(lists))

\* the tasks are the job list cut into consecutive pieces of the given size,
\* the last piece possibly shorter and not empty
ConsecutiveTasks(size) ==
    /\ Flattened(tasks) = [j \in 1..total_files |-> j]
    /\ \A t \in 1..Len(tasks) :
           /\ Len(tasks[t]) >= 1
           /\ t < Len(tasks) => Len(tasks[t]) = size
           /\ Len(tasks[t]) <= size

TasksAsClaimed ==
    Submitted => ConsecutiveTasks(IF perf_settings.batch_size > 1
                                  THEN perf_settings.batch_size ELSE 1)

C26_CommitsStrictlyAscending ==
    \A n \in 1..(Len(split_points) - 1) : split_points[n] < split_points[n + 1]

(***************************************************************************)
(* C27.  The tally returned by the orchestrator.                           *)
(***************************************************************************)
\* C27: whenever process_all_documents or process_sequentially has returned
\* (total, succeeded, failed), total is the number of discovered jobs and
\* equals succeeded + len(failed), on the sequential path and on the pooled
\* path with or without batches, also when the pool raised part-way.
C27_TallyAddsUp ==
    ppc = "returned" =>
        /\ total_files = Len(jobs)
        /\ total_files = processed_files + Len(failed_files)

(***************************************************************************)
(* C28.  The module-level defaults during a session.                       *)
(***************************************************************************)
ParseFailed(load) == load.file_before.exists /\ ~load.file_before.text.complete

\* C28: after any sequence of loads, saves and configuration edits (the
\* startup step that adds performance_settings and the edit flow of main
\* included) the module-level default configuration still holds its literal
\* values, and every load_config that hit a parse failure returned exactly
\* the literal defaults.
C28_DefaultsKeepLiteralValues ==
    /\ default_config # <<>> => default_config = DEFAULT_CONFIG
    /\ \A i \in DOMAIN loads :
          ParseFailed(loads[i]) /\ loads[i].status = "returned"
              => loads[i].value = DEFAULT_CONFIG

(***************************************************************************)
(* C29, C30.  Runs over one tree.                                          *)
(***************************************************************************)
JobInputs == {FileOf(walk_jobs[n].input) : n \in DOMAIN walk_jobs}

\* C29: whatever the output folder was in earlier runs and is in this one,
\* no file an earlier run wrote is the input of a job of a later run.
C29_EarlierOutputsNeverInputs ==
    writes # <<>> => JobInputs \cap writes.earlier = {}

\* C30: within one run distinct jobs have distinct output files, and no
\* worker, in whatever order the workers take the jobs, has written a file
\* that is the input of a job of the run.
C30_OutputsApartFromSources ==
    writes # <<>> =>
        /\ \A m, n \in DOMAIN walk_jobs :
              m # n => FileOf(walk_jobs[m].output) # FileOf(walk_jobs[n].output)
        /\ JobInputs \cap writes.latest = {}

====
